---- MODULE Spec2Model ----
(***************************************************************************)
(* State-machine model of the mineral-processing simulator of              *)
(* simulacao-moagem/src/App.tsx: the mass-balance solver                   *)
(* (calculateBalance), its bounded history, the discounted-cash-flow       *)
(* evaluator (calculateEconomics), the example loader and the form reset.  *)
(*                                                                         *)
(* Numbers.  The program computes with JavaScript numbers.  A number is    *)
(* modelled as a reduced fraction [n, d] with d > 0, or as one of the      *)
(* three non-finite values a division can produce: d = 0 with n = 0 is     *)
(* NaN, n = 1 is +Infinity and n = -1 is -Infinity.  Arithmetic on finite  *)
(* values is exact (binary rounding is not modelled); arithmetic and       *)
(* comparisons on the non-finite values follow IEEE 754 as JavaScript      *)
(* does.  A zero has no sign: x / 0 takes the sign of x.                   *)
(***************************************************************************)
EXTENDS Integers, Sequences, FiniteSets, TLC

VARIABLES
    alimentacao,        \* feed stream entered in the form
    concentrado,        \* concentrate stream entered in the form
    rejeito,            \* tailings stream entered in the form
    results,            \* <<>> for null, <<r>> for a balance result r
    errors,             \* list of messages shown to the user
    simulationHistory,  \* the last balance results, for the charts
    economicData,       \* inputs of the cash-flow evaluation
    economicResults,    \* <<>> for null, <<e>> for a cash-flow result e
    optimizationParams, \* targets of the feed-assay search
    eaResults,          \* EconomicAnalysis: the results prop, <<>> for null
    eaEconomicData,     \* EconomicAnalysis: its own economicData
    eaEconomicResults,  \* EconomicAnalysis: its own economicResults
    solved,             \* history variable: every result ever stored, in order
    nEdits,             \* history variable: field edits made in the session
    failures,           \* history variable: failed solves so far
    activeTool,         \* flowsheet: the tool selected in the toolbar
    equipments,         \* flowsheet: the equipment on the canvas, in order
    nextEquipmentId,    \* flowsheet: number of the next equipment id
    contextMenu,        \* flowsheet: <<>> or <<id>> of the open context menu
    editingEquipment,   \* flowsheet: <<>> or <<e>> being edited in the dialog
    showEditModal,      \* flowsheet: the edit dialog is open
    pc,                 \* calculateEconomics: position of the running call
    curAno,             \* calculateEconomics: ano, year counter of the running loop
    curTaxa,            \* calculateEconomics: taxa, grid index of the rate on trial
    scanStop,           \* prophecy: grid index at which the rate scan will break, 0 if none
    pending,            \* prophecy: <<>> or <<e>>, the result the running call will store
    dcfInputs,          \* history variable: <<>> or the inputs of the stored DCF result
    eaInputs,           \* history variable: <<>> or the inputs of the stored EconomicAnalysis result
    lastOp              \* history variable: the handler that ran last, "" at the start

vars == <<alimentacao, concentrado, rejeito, results, errors, simulationHistory,
          economicData, economicResults, optimizationParams,
          eaResults, eaEconomicData, eaEconomicResults, solved, nEdits,
          failures, activeTool, equipments, nextEquipmentId, contextMenu,
          editingEquipment, showEditModal, pc, curAno, curTaxa, scanStop,
          pending, dcfInputs, eaInputs, lastOp>>

\* The state of the EconomicAnalysis component.
eaVars == <<eaResults, eaEconomicData, eaEconomicResults>>

\* The state of the flowsheet canvas.
canvasVars == <<activeTool, equipments, nextEquipmentId, contextMenu,
                editingEquipment, showEditModal>>

\* The locals of a call of calculateEconomics that is followed step by step.
loopVars == <<pc, curAno, curTaxa, scanStop, pending>>

\* What each evaluator read when it stored its result, and the last handler.
trackVars == <<dcfInputs, eaInputs, lastOp>>

-----------------------------------------------------------------------------
(* JavaScript numbers                                                      *)

Abs(x) == IF x < 0 THEN -x ELSE x

Sgn(x) == IF x < 0 THEN -1 ELSE IF x > 0 THEN 1 ELSE 0

RECURSIVE GCD(_, _)
GCD(a, b) == IF b = 0 THEN a ELSE GCD(b, a % b)

\* The number n/d, reduced; d = 0 gives NaN or an infinity of the sign of n.
Num(n, d) ==
    IF d = 0 THEN [n |-> Sgn(n), d |-> 0]
    ELSE LET g == GCD(Abs(n), Abs(d))
             s == IF d < 0 THEN -1 ELSE 1
         IN  [n |-> s * (n \div g), d |-> Abs(d) \div g]

Whole(n) == [n |-> n, d |-> 1]

Zero == Whole(0)

NaN == [n |-> 0, d |-> 0]

PosInf == [n |-> 1, d |-> 0]

NegInf == [n |-> -1, d |-> 0]

IsNaN(x) == x.d = 0 /\ x.n = 0

IsInf(x) == x.d = 0 /\ x.n # 0

IsFinite(x) == x.d > 0

\* JavaScript truthiness of a number: !x holds for 0 and for NaN.
Truthy(x) == x.n # 0

Neg(x) == [n |-> -x.n, d |-> x.d]

Add(a, b) ==
    IF IsNaN(a) \/ IsNaN(b) THEN NaN
    ELSE IF IsInf(a) /\ IsInf(b) THEN (IF a.n = b.n THEN a ELSE NaN)
    ELSE IF IsInf(a) THEN a
    ELSE IF IsInf(b) THEN b
    ELSE LET g == GCD(a.d, b.d)
         IN  Num(a.n * (b.d \div g) + b.n * (a.d \div g), (a.d \div g) * b.d)

Sub(a, b) == Add(a, Neg(b))

Mul(a, b) ==
    IF IsNaN(a) \/ IsNaN(b) THEN NaN
    ELSE IF IsInf(a) \/ IsInf(b) THEN Num(Sgn(a.n) * Sgn(b.n), 0)
    ELSE LET g1 == GCD(Abs(a.n), b.d)
             g2 == GCD(Abs(b.n), a.d)
         IN  Num((a.n \div g1) * (b.n \div g2), (a.d \div g2) * (b.d \div g1))

Div(a, b) ==
    IF IsNaN(a) \/ IsNaN(b) THEN NaN
    ELSE IF IsInf(a) /\ IsInf(b) THEN NaN
    ELSE IF IsInf(a) THEN (IF b.n < 0 THEN Neg(a) ELSE a)
    ELSE IF IsInf(b) THEN Zero
    ELSE IF b.n = 0 THEN Num(Sgn(a.n), 0)
    ELSE Mul(a, Num(b.d, b.n))

\* a < b; false as soon as one side is NaN.
Lt(a, b) ==
    IF IsNaN(a) \/ IsNaN(b) THEN FALSE
    ELSE IF IsInf(a) \/ IsInf(b) THEN
        (IF IsInf(a) /\ IsInf(b) THEN a.n < b.n
         ELSE IF IsInf(a) THEN a.n < 0
         ELSE b.n > 0)
    ELSE LET g == GCD(a.d, b.d)
         IN  a.n * (b.d \div g) < b.n * (a.d \div g)

Gt(a, b) == Lt(b, a)

\* a <= b; false as soon as one side is NaN.
Le(a, b) == ~IsNaN(a) /\ ~IsNaN(b) /\ ~Lt(b, a)

Ge(a, b) == Le(b, a)

\* Math.min
MathMin(a, b) == IF IsNaN(a) \/ IsNaN(b) THEN NaN ELSE IF Lt(b, a) THEN b ELSE a

\* parseFloat(e.target.value) || 0 : an empty or unparsable field gives 0.
ParsedOrZero(x) == IF Truthy(x) THEN x ELSE Zero

-----------------------------------------------------------------------------
(* Streams and results                                                     *)

Stream(v, c, d) == [vazao |-> v, concentracao |-> c, densidade |-> d]

ZeroStream == Stream(Zero, Zero, Zero)

\* results, economicResults: null is the empty sequence.
Null == <<>>

IsNull(x) == x = <<>>

Some(x) == <<x>>

Val(x) == x[1]

-----------------------------------------------------------------------------
(* calculateBalance                                                        *)

MsgAlimentacao == "Dados de alimentação incompletos"

MsgConcentrado == "Dados de concentrado incompletos"

MsgRejeito == "Dados de rejeito incompletos"

MsgNaoFisico == "Dados inconsistentes - resultados não físicos"

AlimentacaoIncompleta(a) ==
    ~Truthy(a.vazao) \/ ~Truthy(a.concentracao) \/ ~Truthy(a.densidade)

ConcentradoIncompleto(c) == ~Truthy(c.concentracao) \/ ~Truthy(c.densidade)

RejeitoIncompleto(r) == ~Truthy(r.concentracao) \/ ~Truthy(r.densidade)

\* Variant: the validations return at the first incomplete group.
ValidationErrorsShortCircuit(a, c, r) ==
    IF AlimentacaoIncompleta(a) THEN <<MsgAlimentacao>>
    ELSE IF ConcentradoIncompleto(c) THEN <<MsgConcentrado>>
    ELSE IF RejeitoIncompleto(r) THEN <<MsgRejeito>>
    ELSE <<>>

\* newErrors after the three basic validations, in push order.
ValidationErrors(a, c, r) ==
    (IF AlimentacaoIncompleta(a) THEN <<MsgAlimentacao>> ELSE <<>>)
    \o (IF ConcentradoIncompleto(c) THEN <<MsgConcentrado>> ELSE <<>>)
    \o (IF RejeitoIncompleto(r) THEN <<MsgRejeito>> ELSE <<>>)

\* Variant: the numerator takes c - f, the tailings share, for f - t.
ConcentrateFlowSwapped(F, f, c, t) == Div(Mul(F, Sub(c, f)), Sub(c, t))

\* C = (F * (f - t)) / (c - t)
ConcentrateFlow(F, f, c, t) == Div(Mul(F, Sub(f, t)), Sub(c, t))

\* Variant: a sign slip, T = F + C.
TailingsFlowPlus(F, C) == Add(F, C)

\* T = F - C
TailingsFlow(F, C) == Sub(F, C)

\* C < 0 || T < 0
NonPhysical(C, T) == Lt(C, Zero) \/ Lt(T, Zero)

\* Variant: the flows are left out, the ratio of the assays alone.
RecuperacaoSemVazao(C, c, F, f) == Mul(Div(c, f), Whole(100))

\* recuperacao = (C * c) / (F * f) * 100
Recuperacao(C, c, F, f) == Mul(Div(Mul(C, c), Mul(F, f)), Whole(100))

\* razaoConcentracao = c / f
RazaoConcentracao(c, f) == Div(c, f)

\* eficienciaSeparacao = recuperacao * (c - f) / (c * (100 - f))
EficienciaSeparacao(rec, c, f) ==
    Div(Mul(rec, Sub(c, f)), Mul(c, Sub(Whole(100), f)))

\* The BalanceResults object built from the form's streams.
NewResults(a, c, r) ==
    LET F == a.vazao
        f == a.concentracao
        cc == c.concentracao
        t == r.concentracao
        C == ConcentrateFlow(F, f, cc, t)
        T == TailingsFlow(F, C)
        rec == Recuperacao(C, cc, F, f)
    IN  [alimentacao |-> a,
         concentrado |-> Stream(C, cc, c.densidade),
         rejeito |-> Stream(T, t, r.densidade),
         recuperacao |-> rec,
         razaoConcentracao |-> RazaoConcentracao(cc, f),
         eficienciaSeparacao |-> EficienciaSeparacao(rec, cc, f)]

HistoryCap == 20

\* s.slice(-k)
SliceLast(s, k) == IF Len(s) <= k THEN s ELSE SubSeq(s, Len(s) - k + 1, Len(s))

\* Variant: slice(0, 20), which keeps the oldest entries.
AppendHistoryKeepOldest(prev, r) ==
    LET all == Append(prev, r)
    IN  IF Len(all) <= HistoryCap THEN all ELSE SubSeq(all, 1, HistoryCap)

\* [...prev, newResults].slice(-20)
AppendHistory(prev, r) == SliceLast(Append(prev, r), HistoryCap)

\* Variant: a solve refuses to run while an error is on display.
calculateBalanceSticky ==
    IF errors # <<>>
    THEN UNCHANGED <<alimentacao, concentrado, rejeito, results, errors,
                     simulationHistory, economicData, economicResults,
                     optimizationParams, solved>>
    ELSE LET newErrors == ValidationErrors(alimentacao, concentrado, rejeito)
             r == NewResults(alimentacao, concentrado, rejeito)
         IN  /\ IF Len(newErrors) > 0
                THEN /\ errors' = newErrors
                     /\ UNCHANGED <<results, simulationHistory, solved>>
                ELSE IF NonPhysical(r.concentrado.vazao, r.rejeito.vazao)
                THEN /\ errors' = <<MsgNaoFisico>>
                     /\ UNCHANGED <<results, simulationHistory, solved>>
                ELSE /\ results' = Some(r)
                     /\ errors' = <<>>
                     /\ simulationHistory' = AppendHistory(simulationHistory, r)
                     /\ solved' = Append(solved, r)
             /\ UNCHANGED <<optimizationParams, alimentacao, concentrado, rejeito,
                            economicData, economicResults>>

\* Variant: the non-physical branch reports the error and falls through to the
\* store.
calculateBalanceNoReturn ==
    LET newErrors == ValidationErrors(alimentacao, concentrado, rejeito)
        r == NewResults(alimentacao, concentrado, rejeito)
    IN  /\ IF Len(newErrors) > 0
           THEN /\ errors' = newErrors
                /\ UNCHANGED <<results, simulationHistory, solved>>
           ELSE /\ errors' = IF NonPhysical(r.concentrado.vazao, r.rejeito.vazao)
                             THEN <<MsgNaoFisico>>
                             ELSE <<>>
                /\ results' = Some(r)
                /\ simulationHistory' = AppendHistory(simulationHistory, r)
                /\ solved' = Append(solved, r)
        /\ UNCHANGED <<optimizationParams, alimentacao, concentrado, rejeito,
                       economicData, economicResults>>

\* Variant: a successful solve writes the solved streams back into the form.
calculateBalanceWriteBack ==
    LET newErrors == ValidationErrors(alimentacao, concentrado, rejeito)
        r == NewResults(alimentacao, concentrado, rejeito)
    IN  IF Len(newErrors) > 0
        THEN /\ errors' = newErrors
             /\ UNCHANGED <<results, simulationHistory, solved, concentrado, rejeito,
                            optimizationParams, alimentacao, economicData,
                            economicResults>>
        ELSE IF NonPhysical(r.concentrado.vazao, r.rejeito.vazao)
        THEN /\ errors' = <<MsgNaoFisico>>
             /\ UNCHANGED <<results, simulationHistory, solved, concentrado, rejeito,
                            optimizationParams, alimentacao, economicData,
                            economicResults>>
        ELSE /\ results' = Some(r)
             /\ errors' = <<>>
             /\ simulationHistory' = AppendHistory(simulationHistory, r)
             /\ solved' = Append(solved, r)
             /\ concentrado' = r.concentrado
             /\ rejeito' = r.rejeito
             /\ UNCHANGED <<optimizationParams, alimentacao, economicData,
                            economicResults>>

calculateBalance ==
    LET newErrors == ValidationErrors(alimentacao, concentrado, rejeito)
        r == NewResults(alimentacao, concentrado, rejeito)
    IN  /\ IF Len(newErrors) > 0
           THEN /\ errors' = newErrors
                /\ UNCHANGED <<results, simulationHistory, solved>>
           ELSE IF NonPhysical(r.concentrado.vazao, r.rejeito.vazao)
           THEN /\ errors' = <<MsgNaoFisico>>
                /\ UNCHANGED <<results, simulationHistory, solved>>
           ELSE /\ results' = Some(r)
                /\ errors' = <<>>
                /\ simulationHistory' = AppendHistory(simulationHistory, r)
                /\ solved' = Append(solved, r)
        /\ UNCHANGED <<optimizationParams, alimentacao, concentrado, rejeito, economicData,
                       economicResults>>

-----------------------------------------------------------------------------
(* calculateEconomics: discounted cash flow                                *)

MsgEconomia ==
    "Execute uma simulação e preencha os dados econômicos antes de calcular"

\* The useState initial value of economicData.
DefaultEconomicData ==
    [capex |-> Zero, opexAnual |-> Zero, receita |-> Zero,
     vidaUtil |-> Whole(10), taxaDesconto |-> Whole(12),
     custoEnergia |-> Num(8, 100), custoMaodeObra |-> Whole(50000),
     custoManutencao |-> Whole(25000)]

HorasAno == 8760

\* Variant: the guard forgets the annual operating cost.
DcfGuardFailsCapexOnly(res, ed) == IsNull(res) \/ ~Truthy(ed.capex)

\* !results || !economicData.capex || !economicData.opexAnual
DcfGuardFails(res, ed) ==
    IsNull(res) \/ ~Truthy(ed.capex) \/ ~Truthy(ed.opexAnual)

\* receitaAnual = results.concentrado.vazao * 8760 * economicData.receita / 1000
ReceitaAnual(r, ed) ==
    Div(Mul(Mul(r.concentrado.vazao, Whole(HorasAno)), ed.receita), Whole(1000))

\* Variant: the energy cost for the hours of the other evaluator instead of 8760.
CustoOperacionalHorasOperacao(r, ed) ==
    Add(Add(Add(ed.opexAnual,
                Mul(Mul(r.alimentacao.vazao, eaEconomicData.horasOperacao),
                    ed.custoEnergia)),
            ed.custoMaodeObra),
        ed.custoManutencao)

\* custoOperacional = opexAnual + vazao * 8760 * custoEnergia + maoDeObra + manutencao
CustoOperacional(r, ed) ==
    Add(Add(Add(ed.opexAnual,
                Mul(Mul(r.alimentacao.vazao, Whole(HorasAno)), ed.custoEnergia)),
            ed.custoMaodeObra),
        ed.custoManutencao)

FluxoCaixaAnual(r, ed) == Sub(ReceitaAnual(r, ed), CustoOperacional(r, ed))

\* Math.pow(x, k) for a whole k >= 0
RECURSIVE Pow(_, _)
Pow(x, k) == IF k = 0 THEN Whole(1) ELSE Mul(x, Pow(x, k - 1))

\* One term of the sum: fluxoCaixaAnual / Math.pow(1 + taxa / 100, ano)
Parcela(cf, taxa, ano) ==
    Div(cf, Pow(Add(Whole(1), Div(taxa, Whole(100))), ano))

\* for (let ano = 1; ano <= vidaUtil; ano++) acc += parcela
RECURSIVE VplLoop(_, _, _, _, _)
VplLoop(acc, cf, taxa, ano, vidaUtil) ==
    IF Le(Whole(ano), vidaUtil)
    THEN VplLoop(Add(acc, Parcela(cf, taxa, ano)), cf, taxa, ano + 1, vidaUtil)
    ELSE acc

\* Variant: the sum starts from +capex.
VplPlusCapex(capex, cf, taxa, vidaUtil) == VplLoop(capex, cf, taxa, 1, vidaUtil)

\* The value of vpl (and of vplTeste) after the loop over the years.
Vpl(capex, cf, taxa, vidaUtil) == VplLoop(Neg(capex), cf, taxa, 1, vidaUtil)

\* The scan for (let taxa = 1; taxa <= 100; taxa += 0.1): its k-th rate, in tenths.
TirFirst == 10

TirLast == 1000

TaxaTeste(k) == Num(k, 10)

\* if (vplTeste <= 0) at the k-th rate of the scan
Crossing(capex, cf, vidaUtil, k) ==
    Le(Vpl(capex, cf, TaxaTeste(k), vidaUtil), Zero)

\* Variant: the crossing rate itself is reported, tir = taxa.
TirSemRecuo(capex, cf, vidaUtil) ==
    IF \E k \in TirFirst..TirLast : Crossing(capex, cf, vidaUtil, k)
    THEN TaxaTeste(CHOOSE k \in TirFirst..TirLast :
                       /\ Crossing(capex, cf, vidaUtil, k)
                       /\ \A j \in TirFirst..(k - 1) : ~Crossing(capex, cf, vidaUtil, j))
    ELSE Zero

\* Variant: the step back is a whole point, tir = taxa - 1.
TirRecuoInteiro(capex, cf, vidaUtil) ==
    IF \E k \in TirFirst..TirLast : Crossing(capex, cf, vidaUtil, k)
    THEN Sub(TaxaTeste(CHOOSE k \in TirFirst..TirLast :
                           /\ Crossing(capex, cf, vidaUtil, k)
                           /\ \A j \in TirFirst..(k - 1) : ~Crossing(capex, cf, vidaUtil, j)),
             Whole(1))
    ELSE Zero

\* tir = taxa - 0.1 at the first crossing (then break), 0 when the scan ends without one.
Tir(capex, cf, vidaUtil) ==
    IF \E k \in TirFirst..TirLast : Crossing(capex, cf, vidaUtil, k)
    THEN LET first == CHOOSE k \in TirFirst..TirLast :
                          /\ Crossing(capex, cf, vidaUtil, k)
                          /\ \A j \in TirFirst..(k - 1) : ~Crossing(capex, cf, vidaUtil, j)
         IN  Sub(TaxaTeste(first), Num(1, 10))
    ELSE Zero

\* payback = capex / fluxoCaixaAnual
Payback(capex, cf) == Div(capex, cf)

\* roi = ((fluxoCaixaAnual * vidaUtil) - capex) / capex * 100
Roi(capex, cf, vidaUtil) ==
    Mul(Div(Sub(Mul(cf, vidaUtil), capex), capex), Whole(100))

\* custoTonelada = custoOperacional / (results.concentrado.vazao * 8760)
CustoTonelada(r, ed) ==
    Div(CustoOperacional(r, ed), Mul(r.concentrado.vazao, Whole(HorasAno)))

\* The EconomicResults object.
EconomicResult(r, ed) ==
    LET cf == FluxoCaixaAnual(r, ed)
    IN  [vpl |-> Vpl(ed.capex, cf, ed.taxaDesconto, ed.vidaUtil),
         tir |-> Tir(ed.capex, cf, ed.vidaUtil),
         payback |-> Payback(ed.capex, cf),
         roi |-> Roi(ed.capex, cf, ed.vidaUtil),
         custoTonelada |-> CustoTonelada(r, ed)]

calculateEconomics ==
    /\ UNCHANGED <<optimizationParams, alimentacao, concentrado, rejeito, results, simulationHistory,
                   economicData, solved>>
    /\ IF DcfGuardFails(results, economicData)
       THEN /\ errors' = <<MsgEconomia>>
            /\ UNCHANGED economicResults
       ELSE /\ economicResults' = Some(EconomicResult(Val(results), economicData))
            /\ UNCHANGED errors

-----------------------------------------------------------------------------
(* loadExample, resetForm and the form fields                              *)

ExampleTypes == {"iron-ore", "copper", "coal"}

ExampleAlimentacao(type) ==
    CASE type = "iron-ore" -> Stream(Whole(100), Num(355, 10), Num(38, 10))
      [] type = "copper" -> Stream(Whole(50), Num(85, 100), Num(27, 10))
      [] type = "coal" -> Stream(Whole(200), Num(258, 10), Num(16, 10))

ExampleConcentrado(type) ==
    CASE type = "iron-ore" -> Stream(Zero, Num(682, 10), Num(48, 10))
      [] type = "copper" -> Stream(Zero, Num(285, 10), Num(32, 10))
      [] type = "coal" -> Stream(Zero, Num(52, 10), Num(13, 10))

ExampleRejeito(type) ==
    CASE type = "iron-ore" -> Stream(Zero, Num(85, 10), Num(29, 10))
      [] type = "copper" -> Stream(Zero, Num(12, 100), Num(26, 10))
      [] type = "coal" -> Stream(Zero, Num(685, 10), Num(21, 10))

loadExample(type) ==
    /\ alimentacao' = ExampleAlimentacao(type)
    /\ concentrado' = ExampleConcentrado(type)
    /\ rejeito' = ExampleRejeito(type)
    /\ results' = Null
    /\ errors' = <<>>
    /\ UNCHANGED <<optimizationParams, simulationHistory, economicData, economicResults, solved>>

\* Variant: the reset also empties the history.
resetFormClearsHistory ==
    /\ alimentacao' = ZeroStream
    /\ concentrado' = ZeroStream
    /\ rejeito' = ZeroStream
    /\ results' = Null
    /\ errors' = <<>>
    /\ simulationHistory' = <<>>
    /\ UNCHANGED <<optimizationParams, economicData, economicResults, solved>>

resetForm ==
    /\ alimentacao' = ZeroStream
    /\ concentrado' = ZeroStream
    /\ rejeito' = ZeroStream
    /\ results' = Null
    /\ errors' = <<>>
    /\ UNCHANGED <<optimizationParams, simulationHistory, economicData, economicResults, solved>>

\* onChange of a feed field: setAlimentacao(prev => ({...prev, field: parseFloat(v) || 0}))
onChangeAlimentacao(field, x) ==
    /\ alimentacao' = [alimentacao EXCEPT ![field] = ParsedOrZero(x)]
    /\ UNCHANGED <<optimizationParams, concentrado, rejeito, results, errors, simulationHistory,
                   economicData, economicResults, solved>>

\* onChange of a concentrate field (its flow rate field is read-only)
onChangeConcentrado(field, x) ==
    /\ concentrado' = [concentrado EXCEPT ![field] = ParsedOrZero(x)]
    /\ UNCHANGED <<optimizationParams, alimentacao, rejeito, results, errors, simulationHistory,
                   economicData, economicResults, solved>>

\* onChange of a tailings field (its flow rate field is read-only)
onChangeRejeito(field, x) ==
    /\ rejeito' = [rejeito EXCEPT ![field] = ParsedOrZero(x)]
    /\ UNCHANGED <<optimizationParams, alimentacao, concentrado, results, errors, simulationHistory,
                   economicData, economicResults, solved>>

\* onChange of one of the five fields of the economics panel
onChangeEconomicData(field, x) ==
    /\ economicData' = [economicData EXCEPT ![field] = ParsedOrZero(x)]
    /\ UNCHANGED <<optimizationParams, alimentacao, concentrado, rejeito, results, errors,
                   simulationHistory, economicResults, solved>>

-----------------------------------------------------------------------------
(* The form-driven session: examples, edits, solves                        *)

\* useState of the flowsheet: tool "moinho", empty canvas, next id 1, no menu,
\* no dialog.
InitCanvas ==
    /\ activeTool = "moinho"
    /\ equipments = <<>>
    /\ nextEquipmentId = 1
    /\ contextMenu = Null
    /\ editingEquipment = Null
    /\ showEditModal = FALSE

\* No call of calculateEconomics is being followed.
InitLoop ==
    /\ pc = "idle"
    /\ curAno = [hi |-> 0, lo |-> 0]
    /\ curTaxa = 0
    /\ scanStop = 0
    /\ pending = <<>>

\* The state after the useState initialisers.
\* useState<OptimizationParams>
DefaultOptimizationParams ==
    [targetRecovery |-> Whole(85), maxDensity |-> Whole(5),
     minGrade |-> Whole(60), energyLimit |-> Whole(15)]

\* EconomicAnalysis: useState<EconomicData>
EaDefaultEconomicData ==
    [precoConcetrado |-> Zero, custoProcessamento |-> Zero,
     custoPerdaMineral |-> Zero, horasOperacao |-> Whole(8760)]

Init ==
    /\ alimentacao = ZeroStream
    /\ concentrado = ZeroStream
    /\ rejeito = ZeroStream
    /\ results = Null
    /\ errors = <<>>
    /\ simulationHistory = <<>>
    /\ economicData = DefaultEconomicData
    /\ economicResults = Null
    /\ solved = <<>>
    /\ nEdits = 0
    /\ failures = 0
    /\ InitCanvas
    /\ InitLoop
    /\ dcfInputs = <<>>
    /\ eaInputs = <<>>
    /\ lastOp = ""
    /\ optimizationParams = DefaultOptimizationParams
    /\ eaResults = Null
    /\ eaEconomicData = EaDefaultEconomicData
    /\ eaEconomicResults = Null

\* Values typed into a field; NaN stands for a cleared or unparsable field.
VazaoInputs == {NaN, Whole(-100)}

TeorInputs == {NaN, Num(85, 10), Num(355, 10), Num(682, 10)}

DensidadeInputs == {NaN}

MaxEdits == 2

MaxSolves == 1

\* The session makes at most MaxEdits field edits.
EditStreams ==
    /\ nEdits < MaxEdits
    /\ nEdits' = nEdits + 1
    /\ UNCHANGED <<failures, eaVars, canvasVars, loopVars, trackVars>>
    /\ \/ \E x \in VazaoInputs : onChangeAlimentacao("vazao", x)
       \/ \E x \in TeorInputs : onChangeAlimentacao("concentracao", x)
       \/ \E x \in DensidadeInputs : onChangeAlimentacao("densidade", x)
       \/ \E x \in TeorInputs : onChangeConcentrado("concentracao", x)
       \/ \E x \in DensidadeInputs : onChangeConcentrado("densidade", x)
       \/ \E x \in TeorInputs : onChangeRejeito("concentracao", x)
       \/ \E x \in DensidadeInputs : onChangeRejeito("densidade", x)

LoadExample == (\E type \in ExampleTypes : loadExample(type)) /\ UNCHANGED <<nEdits, failures, eaVars, canvasVars, loopVars, trackVars>>

ResetForm == resetForm /\ UNCHANGED <<nEdits, failures, eaVars, canvasVars, loopVars, trackVars>>

\* The session ends once MaxSolves results have been stored.
Solve == calculateBalance /\ Len(solved') <= MaxSolves /\ UNCHANGED <<nEdits, failures, eaVars, canvasVars, loopVars, trackVars>>

Next ==
    \/ EditStreams
    \/ LoadExample
    \/ ResetForm
    \/ Solve

Spec == Init /\ [][Next]_vars

-----------------------------------------------------------------------------
(* The economics panel: a solved form, edits of the economic data,         *)
(* cash-flow evaluations                                                   *)

\* Forms the parameters panel can hold when the economics panel is opened.
DcfForms ==
    {<<Stream(Whole(100), Whole(20), Whole(3)), Stream(Zero, Whole(60), Whole(4)),
       Stream(Zero, Whole(10), Whole(2))>>,
     <<Stream(Whole(100), Whole(10), Whole(3)), Stream(Zero, Whole(10), Whole(4)),
       Stream(Zero, Whole(10), Whole(2))>>}

\* Values typed into the fields of the economics panel.
CapexInputs == {NaN, Whole(15)}

OpexInputs == {NaN, Whole(30110), Whole(30130)}

ReceitaInputs == {Whole(1000)}

VidaUtilInputs == {NaN, Whole(-1), Whole(2), Num(5, 2)}

TaxaDescontoInputs == {NaN, Whole(25)}

\* The panel is opened on a filled form, with the price, the asset life and
\* the discount rate already typed in.
InitDCF ==
    /\ \E form \in DcfForms :
          /\ alimentacao = form[1]
          /\ concentrado = form[2]
          /\ rejeito = form[3]
    /\ results = Null
    /\ errors = <<>>
    /\ simulationHistory = <<>>
    /\ \E p \in ReceitaInputs, v \in VidaUtilInputs, t \in TaxaDescontoInputs :
          economicData = [DefaultEconomicData EXCEPT !.receita = ParsedOrZero(p),
                                                     !.vidaUtil = ParsedOrZero(v),
                                                     !.taxaDesconto = ParsedOrZero(t)]
    /\ economicResults = Null
    /\ solved = <<>>
    /\ nEdits = 0
    /\ failures = 0
    /\ InitCanvas
    /\ InitLoop
    /\ dcfInputs = <<>>
    /\ eaInputs = <<>>
    /\ lastOp = ""
    /\ optimizationParams = DefaultOptimizationParams
    /\ eaResults = Null
    /\ eaEconomicData = EaDefaultEconomicData
    /\ eaEconomicResults = Null

EditEconomics ==
    /\ \/ \E x \in CapexInputs : onChangeEconomicData("capex", x)
       \/ \E x \in OpexInputs : onChangeEconomicData("opexAnual", x)
       \/ \E x \in ReceitaInputs : onChangeEconomicData("receita", x)
       \/ \E x \in VidaUtilInputs : onChangeEconomicData("vidaUtil", x)
       \/ \E x \in TaxaDescontoInputs : onChangeEconomicData("taxaDesconto", x)
    /\ UNCHANGED <<nEdits, failures, eaVars, canvasVars, loopVars, trackVars>>

Evaluate == calculateEconomics /\ UNCHANGED <<nEdits, failures, eaVars, canvasVars, loopVars, trackVars>>

NextDCF ==
    \/ EditEconomics
    \/ Solve
    \/ ResetForm
    \/ Evaluate

SpecDCF == InitDCF /\ [][NextDCF]_vars

-----------------------------------------------------------------------------
(* A session that numbers its solves, for the history buffer               *)

MaxSolvesHistory == 22

\* The feed flow typed before the next solve: the ordinal of that solve.
NextVazao == Whole(Len(solved) + 1)

LoadIronOre == loadExample("iron-ore") /\ UNCHANGED <<nEdits, failures, eaVars, canvasVars, loopVars, trackVars>>

NumberFeed ==
    /\ alimentacao.vazao # NextVazao
    /\ onChangeAlimentacao("vazao", NextVazao)
    /\ UNCHANGED <<nEdits, failures, eaVars, canvasVars, loopVars, trackVars>>

\* Solves run on a cleared form or on a form whose feed flow is the ordinal,
\* so that any two stored results differ.
SolveNumbered ==
    /\ alimentacao.vazao \in {Zero, NextVazao}
    /\ calculateBalance
    /\ Len(solved') <= MaxSolvesHistory
    /\ UNCHANGED <<nEdits, failures, eaVars, canvasVars, loopVars, trackVars>>

NextHistory ==
    \/ LoadIronOre
    \/ NumberFeed
    \/ ResetForm
    \/ SolveNumbered

SpecHistory == Init /\ [][NextHistory]_vars

-----------------------------------------------------------------------------
(* The economics panel after a solve, for the scan of the rates            *)

\* Investments typed into the form: 15 is recovered at a rate inside the
\* scan, 5 at none.
TirCapexInputs == {NaN, Whole(5), Whole(15)}

\* A balance has been solved from one of the forms; the discount rate field
\* has been emptied.
InitTIR ==
    /\ \E form \in DcfForms :
           /\ alimentacao = form[1]
           /\ concentrado = form[2]
           /\ rejeito = form[3]
           /\ results = Some(NewResults(form[1], form[2], form[3]))
           /\ simulationHistory = <<NewResults(form[1], form[2], form[3])>>
           /\ solved = <<NewResults(form[1], form[2], form[3])>>
    /\ errors = <<>>
    /\ \E receita \in ReceitaInputs :
           economicData = [DefaultEconomicData EXCEPT
                               !.receita = ParsedOrZero(receita),
                               !.vidaUtil = Whole(2),
                               !.taxaDesconto = Zero]
    /\ economicResults = Null
    /\ nEdits = 0
    /\ failures = 0
    /\ InitCanvas
    /\ InitLoop
    /\ dcfInputs = <<>>
    /\ eaInputs = <<>>
    /\ lastOp = ""
    /\ optimizationParams = DefaultOptimizationParams
    /\ eaResults = Null
    /\ eaEconomicData = EaDefaultEconomicData
    /\ eaEconomicResults = Null

EditInvestment ==
    /\ \/ \E x \in TirCapexInputs : onChangeEconomicData("capex", x)
       \/ \E x \in OpexInputs : onChangeEconomicData("opexAnual", x)
       \/ \E x \in VidaUtilInputs : onChangeEconomicData("vidaUtil", x)
    /\ UNCHANGED <<nEdits, failures, eaVars, canvasVars, loopVars, trackVars>>

NextTIR ==
    \/ EditInvestment
    \/ Evaluate

SpecTIR == InitTIR /\ [][NextTIR]_vars

-----------------------------------------------------------------------------
(* Solves that fail and solves that follow them                            *)

MaxFailures == 2

\* Edits that break a loaded example and edits that repair it: the feed flow
\* negated and restored, the concentrate density cleared and restored.
BreakOrRepair ==
    /\ \/ \E x \in {Whole(-100), Whole(100)} : onChangeAlimentacao("vazao", x)
       \/ \E x \in {NaN, Num(48, 10)} : onChangeConcentrado("densidade", x)
       \/ \E x \in {NaN, Num(85, 10)} : onChangeRejeito("concentracao", x)
    /\ UNCHANGED <<nEdits, failures, eaVars, canvasVars, loopVars, trackVars>>

\* A solve, counted as failed when it leaves an error.
SolveCounted ==
    /\ calculateBalance
    /\ Len(solved') <= MaxSolves
    /\ failures' = IF errors' # <<>> THEN failures + 1 ELSE failures
    /\ failures' <= MaxFailures
    /\ UNCHANGED <<nEdits, eaVars, canvasVars, loopVars, trackVars>>

NextRecovery ==
    \/ LoadIronOre
    \/ BreakOrRepair
    \/ ResetForm
    \/ SolveCounted

SpecRecovery == Init /\ [][NextRecovery]_vars

-----------------------------------------------------------------------------
(* optimizeParameters                                                      *)

\* for (let conc = 10; conc <= 40; conc += 2)
ConcFirst == 10

ConcLast == 40

ConcStep == 2

\* c = Math.min(concentrado.concentracao, optimizationParams.minGrade)
EffectiveConcentrate(conc, p) == MathMin(conc.concentracao, p.minGrade)

\* if (c > f && f > t)
OrderingHolds(c, f, t) == Gt(c, f) /\ Gt(f, t)

\* recuperacao of the trial: C = (F * (f - t)) / (c - t), (C * c) / (F * f) * 100
TrialRecovery(F, f, c, t) ==
    Mul(Div(Mul(Div(Mul(F, Sub(f, t)), Sub(c, t)), c), Mul(F, f)), Whole(100))

\* Variant: the ceiling test is left out.
TrialImprovesNoCeiling(rec, bestRecovery, p) == Gt(rec, bestRecovery)

\* recuperacao > bestRecovery && recuperacao <= optimizationParams.targetRecovery + 5
TrialImproves(rec, bestRecovery, p) ==
    Gt(rec, bestRecovery) /\ Le(rec, Add(p.targetRecovery, Whole(5)))

\* The loop from candidate conc on; best holds bestRecovery and
\* bestParams.concentracao.
RECURSIVE OptimizeLoop(_, _, _, _, _, _)
OptimizeLoop(best, conc, F, c, t, p) ==
    IF conc > ConcLast
    THEN best
    ELSE LET f == Whole(conc)
             rec == TrialRecovery(F, f, c, t)
         IN  IF OrderingHolds(c, f, t) /\ TrialImproves(rec, best.recovery, p)
             THEN OptimizeLoop([recovery |-> rec, concentracao |-> f],
                               conc + ConcStep, F, c, t, p)
             ELSE OptimizeLoop(best, conc + ConcStep, F, c, t, p)

\* Variant: the feed assay on display also caps the effective concentrate
\* assay, so only candidates below the current feed assay pass the ordering.
BestParamsCappedByFeed(a, conc, rej, p) ==
    [a EXCEPT !.concentracao =
        OptimizeLoop([recovery |-> Zero, concentracao |-> a.concentracao],
                     ConcFirst, a.vazao,
                     MathMin(EffectiveConcentrate(conc, p), a.concentracao),
                     rej.concentracao, p).concentracao]

\* Variant: bestParams starts from the first candidate, not from the form.
BestParamsFromFirst(a, conc, rej, p) ==
    [a EXCEPT !.concentracao =
        OptimizeLoop([recovery |-> Zero, concentracao |-> Whole(ConcFirst)],
                     ConcFirst, a.vazao, EffectiveConcentrate(conc, p),
                     rej.concentracao, p).concentracao]

\* bestParams after the loop: { ...alimentacao } with the best concentracao.
BestParams(a, conc, rej, p) ==
    [a EXCEPT !.concentracao =
        OptimizeLoop([recovery |-> Zero, concentracao |-> a.concentracao],
                     ConcFirst, a.vazao, EffectiveConcentrate(conc, p),
                     rej.concentracao, p).concentracao]

Digit(k) == ToString(k)

\* Number.prototype.toFixed(2)
ToFixed2(x) ==
    IF IsNaN(x) THEN "NaN"
    ELSE IF IsInf(x) THEN (IF x.n > 0 THEN "Infinity" ELSE "-Infinity")
    ELSE LET h == (200 * Abs(x.n) + x.d) \div (2 * x.d)
         IN  (IF x.n < 0 THEN "-" ELSE "")
                 \o ToString(h \div 100) \o "."
                 \o Digit((h % 100) \div 10) \o Digit(h % 10)

\* `Otimização concluída! Nova concentração de alimentação: ${...toFixed(2)}%`
MsgOtimizacao(conc) ==
    "Otimização concluída! Nova concentração de alimentação: "
        \o ToFixed2(conc) \o "%"

\* Variant: the optimizer also writes the clamped concentrate assay to the form.
optimizeParametersClamps ==
    LET bestParams == BestParams(alimentacao, concentrado, rejeito,
                                 optimizationParams)
    IN  /\ alimentacao' = bestParams
        /\ concentrado' = [concentrado EXCEPT !.concentracao =
                               EffectiveConcentrate(concentrado, optimizationParams)]
        /\ errors' = <<MsgOtimizacao(bestParams.concentracao)>>
        /\ UNCHANGED <<optimizationParams, rejeito, results,
                       simulationHistory, economicData, economicResults, solved>>

\* Variant: the stored result shares the feed record the optimizer writes.
optimizeParametersAliased ==
    LET bestParams == BestParams(alimentacao, concentrado, rejeito,
                                 optimizationParams)
    IN  /\ alimentacao' = bestParams
        /\ errors' = <<MsgOtimizacao(bestParams.concentracao)>>
        /\ results' = IF IsNull(results) THEN results
                      ELSE Some([Val(results) EXCEPT !.alimentacao = bestParams])
        /\ UNCHANGED <<optimizationParams, concentrado, rejeito,
                       simulationHistory, economicData, economicResults, solved>>

optimizeParameters ==
    LET bestParams == BestParams(alimentacao, concentrado, rejeito,
                                 optimizationParams)
    IN  /\ alimentacao' = bestParams
        /\ errors' = <<MsgOtimizacao(bestParams.concentracao)>>
        /\ UNCHANGED <<optimizationParams, concentrado, rejeito, results,
                       simulationHistory, economicData, economicResults, solved>>

\* onChange of the targetRecovery and minGrade inputs
onChangeOptimizationParams(field, x) ==
    /\ optimizationParams' = [optimizationParams EXCEPT ![field] = ParsedOrZero(x)]
    /\ UNCHANGED <<alimentacao, concentrado, rejeito, results, errors,
                   simulationHistory, economicData, economicResults, solved>>

TargetRecoveryInputs == {NaN, Whole(85), Whole(95)}

MinGradeInputs == {NaN, Whole(30), Whole(60)}

EditTargets ==
    /\ \/ \E x \in TargetRecoveryInputs :
              onChangeOptimizationParams("targetRecovery", x)
       \/ \E x \in MinGradeInputs : onChangeOptimizationParams("minGrade", x)
    /\ UNCHANGED <<nEdits, failures, eaVars, canvasVars, loopVars, trackVars>>

\* A cleared feed flow and a cleared tailings assay.
ClearField ==
    /\ \/ onChangeAlimentacao("vazao", NaN)
       \/ onChangeRejeito("concentracao", NaN)
    /\ UNCHANGED <<nEdits, failures, eaVars, canvasVars, loopVars, trackVars>>

Optimize == optimizeParameters /\ UNCHANGED <<nEdits, failures, eaVars, canvasVars, loopVars, trackVars>>

NextOptimizer ==
    \/ LoadExample
    \/ ClearField
    \/ EditTargets
    \/ Optimize

SpecOptimizer == Init /\ [][NextOptimizer]_vars

-----------------------------------------------------------------------------
(* The handlers of App together                                            *)

\* The asset life field has been emptied (the evaluation sums no year) and
\* an operating cost typed in.
InitApp ==
    /\ alimentacao = ZeroStream
    /\ concentrado = ZeroStream
    /\ rejeito = ZeroStream
    /\ results = Null
    /\ errors = <<>>
    /\ simulationHistory = <<>>
    /\ economicData = [DefaultEconomicData EXCEPT !.vidaUtil = Zero,
                                                 !.opexAnual = Whole(1)]
    /\ economicResults = Null
    /\ solved = <<>>
    /\ nEdits = 0
    /\ failures = 0
    /\ InitCanvas
    /\ InitLoop
    /\ dcfInputs = <<>>
    /\ eaInputs = <<>>
    /\ lastOp = ""
    /\ optimizationParams = DefaultOptimizationParams
    /\ eaResults = Null
    /\ eaEconomicData = EaDefaultEconomicData
    /\ eaEconomicResults = Null

\* The investment typed in or cleared.
EditCosts ==
    /\ \E x \in CapexInputs : onChangeEconomicData("capex", x)
    /\ UNCHANGED <<nEdits, failures, eaVars, canvasVars, loopVars, trackVars>>

\* The minimum grade cleared or restored.
EditMinGrade ==
    /\ \E x \in {NaN, Whole(60)} : onChangeOptimizationParams("minGrade", x)
    /\ UNCHANGED <<nEdits, failures, eaVars, canvasVars, loopVars, trackVars>>

\* The concentrate assay cleared or typed in again.
EditConcentrate ==
    /\ \E x \in {NaN, Num(682, 10)} : onChangeConcentrado("concentracao", x)
    /\ UNCHANGED <<nEdits, failures, eaVars, canvasVars, loopVars, trackVars>>

NextApp ==
    \/ LoadIronOre
    \/ ResetForm
    \/ ClearField
    \/ EditConcentrate
    \/ EditMinGrade
    \/ EditCosts
    \/ Solve
    \/ Optimize
    \/ Evaluate

SpecApp == InitApp /\ [][NextApp]_vars

-----------------------------------------------------------------------------
(* A call of calculateEconomics followed loop by loop                       *)
(*                                                                         *)
(* The year counter ano is a JavaScript number: a double counts exactly up *)
(* to 2^53, and 2^53 + 1 rounds back to 2^53.  Whole numbers of that size  *)
(* are written here in two limbs, hi * 2^27 + lo; in this section the      *)
(* asset life of economicData is such a whole number.                      *)

Limb == 134217728

Wide(hi, lo) == [hi |-> hi, lo |-> lo]

WideLe(a, b) == a.hi < b.hi \/ (a.hi = b.hi /\ a.lo <= b.lo)

WideSucc(a) == IF a.lo + 1 = Limb THEN Wide(a.hi + 1, 0) ELSE Wide(a.hi, a.lo + 1)

\* 2^53, the last whole number before the doubles thin out to even numbers
MaxExact == Wide(67108864, 0)

\* ano++ of a counter that started at 1: exact below 2^53; 2^53 + 1 is halfway
\* between 2^53 and 2^53 + 2 and rounds to the even significand, 2^53.
Increment(a) == IF a = MaxExact THEN a ELSE WideSucc(a)

\* The loop test ano <= economicData.vidaUtil
YearInLife(a, life) == WideLe(a, life)

\* The counter after the loop body and ano++.  When the life is 2^53 or more,
\* the iterations from ano up to 2^53 are taken as one step: below 2^53 each
\* increment is exact and each test on the way is true.
NextYear(a, life) ==
    IF WideLe(MaxExact, life) /\ a # MaxExact /\ WideLe(a, MaxExact)
    THEN MaxExact
    ELSE Increment(a)

\* A life small enough for the fraction model, as a number.
AsNumber(w) == Whole(w.lo)

\* Asset lives typed into the field: empty, 2, 2^53 and 10^16.
LifeInputs == {Wide(0, 0), Wide(0, 2), MaxExact, Wide(74505805, 130088960)}

InitCall ==
    /\ \E form \in {f \in DcfForms : f[1].concentracao = Whole(20)} :
           /\ alimentacao = form[1]
           /\ concentrado = form[2]
           /\ rejeito = form[3]
           /\ results = Some(NewResults(form[1], form[2], form[3]))
           /\ simulationHistory = <<NewResults(form[1], form[2], form[3])>>
           /\ solved = <<NewResults(form[1], form[2], form[3])>>
    /\ errors = <<>>
    /\ economicData = [DefaultEconomicData EXCEPT
                           !.receita = Whole(1000),
                           !.capex = Whole(5),
                           !.opexAnual = Whole(30110),
                           !.vidaUtil = Wide(0, 2),
                           !.taxaDesconto = Zero]
    /\ economicResults = Null
    /\ nEdits = 0
    /\ failures = 0
    /\ InitCanvas
    /\ InitLoop
    /\ dcfInputs = <<>>
    /\ eaInputs = <<>>
    /\ lastOp = ""
    /\ optimizationParams = DefaultOptimizationParams
    /\ eaResults = Null
    /\ eaEconomicData = EaDefaultEconomicData
    /\ eaEconomicResults = Null

callFrame ==
    UNCHANGED <<alimentacao, concentrado, rejeito, results, simulationHistory,
                optimizationParams, solved, nEdits, failures, eaVars, canvasVars,
                trackVars>>

\* Between calls: the asset life typed in.
EditLife ==
    /\ pc = "idle"
    /\ \E w \in LifeInputs : economicData' = [economicData EXCEPT !.vidaUtil = w]
    /\ UNCHANGED <<errors, economicResults, loopVars>>
    /\ callFrame

\* The economic inputs with the life as a fraction.
NumberedData == [economicData EXCEPT !.vidaUtil = AsNumber(economicData.vidaUtil)]

\* The first grid index with vplTeste <= 0, or 0.
FirstCrossingIndex(capex, cf, vidaUtil) ==
    IF \E k \in TirFirst..TirLast : Crossing(capex, cf, vidaUtil, k)
    THEN CHOOSE k \in TirFirst..TirLast :
             /\ Crossing(capex, cf, vidaUtil, k)
             /\ \A j \in TirFirst..(k - 1) : ~Crossing(capex, cf, vidaUtil, j)
    ELSE 0

\* The click: the guard, the cash flow, let vpl = -capex, let ano = 1.  What
\* the sums of the call will come to is fixed from here on; a life beyond the
\* fraction model never gets to use it.
BeginCall ==
    /\ pc = "idle"
    /\ IF DcfGuardFails(results, economicData)
       THEN /\ errors' = <<MsgEconomia>>
            /\ UNCHANGED loopVars
       ELSE /\ pc' = "vpl"
            /\ curAno' = Wide(0, 1)
            /\ IF economicData.vidaUtil.hi = 0
               THEN /\ scanStop' = FirstCrossingIndex(economicData.capex,
                                       FluxoCaixaAnual(Val(results), NumberedData),
                                       NumberedData.vidaUtil)
                    /\ pending' = Some(EconomicResult(Val(results), NumberedData))
               ELSE /\ scanStop' = 0
                    /\ pending' = Null
            /\ UNCHANGED <<errors, curTaxa>>
    /\ UNCHANGED <<economicData, economicResults>>
    /\ callFrame

\* ano <= vidaUtil: vpl += ...; ano++
VplYear ==
    /\ pc = "vpl"
    /\ YearInLife(curAno, economicData.vidaUtil)
    /\ curAno' = NextYear(curAno, economicData.vidaUtil)
    /\ UNCHANGED <<pc, curTaxa, scanStop, pending, errors, economicData, economicResults>>
    /\ callFrame

\* ano > vidaUtil: let tir = 0; taxa = 1; vplTeste = -capex; ano = 1
VplExit ==
    /\ pc = "vpl"
    /\ ~YearInLife(curAno, economicData.vidaUtil)
    /\ pc' = "tir"
    /\ curTaxa' = TirFirst
    /\ curAno' = Wide(0, 1)
    /\ UNCHANGED <<scanStop, pending, errors, economicData, economicResults>>
    /\ callFrame

\* ano <= vidaUtil: vplTeste += ...; ano++
TirYear ==
    /\ pc = "tir"
    /\ YearInLife(curAno, economicData.vidaUtil)
    /\ curAno' = NextYear(curAno, economicData.vidaUtil)
    /\ UNCHANGED <<pc, curTaxa, scanStop, pending, errors, economicData, economicResults>>
    /\ callFrame

\* ano > vidaUtil and vplTeste > 0: taxa += 0.1, taxa <= 100; vplTeste = -capex;
\* ano = 1
TirNextRate ==
    /\ pc = "tir"
    /\ ~YearInLife(curAno, economicData.vidaUtil)
    /\ curTaxa # scanStop
    /\ curTaxa + 1 <= TirLast
    /\ curTaxa' = curTaxa + 1
    /\ curAno' = Wide(0, 1)
    /\ UNCHANGED <<pc, scanStop, pending, errors, economicData, economicResults>>
    /\ callFrame

\* The scan is over, by break at vplTeste <= 0 or by taxa > 100: payback, roi,
\* custoTonelada, setEconomicResults.
TirEnd ==
    /\ pc = "tir"
    /\ ~YearInLife(curAno, economicData.vidaUtil)
    /\ curTaxa = scanStop \/ curTaxa + 1 > TirLast
    /\ pc' = "idle"
    /\ curAno' = Wide(0, 0)
    /\ curTaxa' = 0
    /\ scanStop' = 0
    /\ pending' = Null
    /\ economicResults' = pending
    /\ UNCHANGED <<errors, economicData>>
    /\ callFrame

\* The call runs to its end without interruption.
RunCall == VplYear \/ VplExit \/ TirYear \/ TirNextRate \/ TirEnd

NextCall ==
    \/ EditLife
    \/ BeginCall
    \/ VplYear
    \/ VplExit
    \/ TirYear
    \/ TirNextRate
    \/ TirEnd

SpecCall == InitCall /\ [][NextCall]_vars /\ WF_vars(RunCall)

-----------------------------------------------------------------------------
(* The EconomicAnalysis component                                          *)

\* The state of App, which the component never writes.
appVars == <<alimentacao, concentrado, rejeito, results, errors, simulationHistory,
             economicData, economicResults, optimizationParams, solved>>

\* Variant: the guard forgets the concentrate price.
EaGuardFailsNoPrice(res, ed) == IsNull(res)

\* !results || !economicData.precoConcetrado
EaGuardFails(res, ed) == IsNull(res) \/ ~Truthy(ed.precoConcetrado)

\* receitaAnual = results.concentrado.vazao * horasOperacao * precoConcetrado
EaReceitaAnual(r, ed) ==
    Mul(Mul(r.concentrado.vazao, ed.horasOperacao), ed.precoConcetrado)

\* custoProcessamentoAnual = results.alimentacao.vazao * horasOperacao * custoProcessamento
EaCustoProcessamentoAnual(r, ed) ==
    Mul(Mul(r.alimentacao.vazao, ed.horasOperacao), ed.custoProcessamento)

\* mineralPerdido = results.rejeito.vazao * results.rejeito.concentracao / 100
EaMineralPerdido(r) ==
    Div(Mul(r.rejeito.vazao, r.rejeito.concentracao), Whole(100))

\* custoPerdaAnual = mineralPerdido * horasOperacao * custoPerdaMineral
EaCustoPerdaAnual(r, ed) ==
    Mul(Mul(EaMineralPerdido(r), ed.horasOperacao), ed.custoPerdaMineral)

\* Variant: the loss cost is added to the profit.
EaLucroMaisPerda(r, ed) ==
    Add(Sub(EaReceitaAnual(r, ed), EaCustoProcessamentoAnual(r, ed)),
        EaCustoPerdaAnual(r, ed))

\* lucroOperacionalAnual = receitaAnual - custoProcessamentoAnual - custoPerdaAnual
EaLucroOperacionalAnual(r, ed) ==
    Sub(Sub(EaReceitaAnual(r, ed), EaCustoProcessamentoAnual(r, ed)),
        EaCustoPerdaAnual(r, ed))

\* margemLucro = (lucroOperacionalAnual / receitaAnual) * 100
EaMargemLucro(r, ed) ==
    Mul(Div(EaLucroOperacionalAnual(r, ed), EaReceitaAnual(r, ed)), Whole(100))

\* (results.recuperacao * precoConcetrado - custoProcessamento) / precoConcetrado * 100
EaEficienciaEconomica(r, ed) ==
    Mul(Div(Sub(Mul(r.recuperacao, ed.precoConcetrado), ed.custoProcessamento),
            ed.precoConcetrado),
        Whole(100))

\* The object passed to setEconomicResults.
EaEconomicResult(r, ed) ==
    LET receitaAnual == EaReceitaAnual(r, ed)
        custoProcessamentoAnual == EaCustoProcessamentoAnual(r, ed)
        custoPerdaAnual == EaCustoPerdaAnual(r, ed)
        lucroOperacionalAnual == EaLucroOperacionalAnual(r, ed)
    IN  [receita |-> [diaria |-> Div(receitaAnual, Whole(365)),
                      mensal |-> Div(receitaAnual, Whole(12)),
                      anual |-> receitaAnual],
         custos |-> [processamento |-> custoProcessamentoAnual,
                     perdas |-> custoPerdaAnual,
                     total |-> Add(custoProcessamentoAnual, custoPerdaAnual)],
         lucro |-> [diario |-> Div(lucroOperacionalAnual, Whole(365)),
                    mensal |-> Div(lucroOperacionalAnual, Whole(12)),
                    anual |-> lucroOperacionalAnual],
         margemLucro |-> EaMargemLucro(r, ed),
         indicadores |->
             [receita_por_tonelada_concentrado |-> ed.precoConcetrado,
              custo_por_tonelada_alimentacao |-> ed.custoProcessamento,
              eficiencia_economica |-> EaEficienciaEconomica(r, ed)]]

\* calculateEconomics of EconomicAnalysis
EconomicAnalysis_calculateEconomics ==
    /\ UNCHANGED <<eaResults, eaEconomicData>>
    /\ IF EaGuardFails(eaResults, eaEconomicData)
       THEN UNCHANGED eaEconomicResults
       ELSE eaEconomicResults' =
                Some(EaEconomicResult(Val(eaResults), eaEconomicData))

\* onChange of the four inputs of EconomicAnalysis
EaOnChangeEconomicData(field, x) ==
    /\ eaEconomicData' = [eaEconomicData EXCEPT ![field] = ParsedOrZero(x)]
    /\ UNCHANGED <<eaResults, eaEconomicResults>>

\* The parent renders the component with a results prop.
EaRender(res) ==
    /\ eaResults' = res
    /\ UNCHANGED <<eaEconomicData, eaEconomicResults>>

\* Results the parent passes: none, a balance with C = 20 and T = 80, and a
\* balance solved with feed assay = tailings assay, whose C is 0.
EaProps ==
    {Null,
     Some(NewResults(Stream(Whole(100), Whole(20), Whole(3)),
                     Stream(Zero, Whole(60), Whole(4)),
                     Stream(Zero, Whole(10), Whole(2)))),
     Some(NewResults(Stream(Whole(100), Whole(10), Whole(3)),
                     Stream(Zero, Whole(60), Whole(4)),
                     Stream(Zero, Whole(10), Whole(2))))}

PrecoInputs == {NaN, Whole(2)}

CustoProcessamentoInputs == {NaN, Whole(1)}

CustoPerdaInputs == {NaN, Whole(3)}

HorasInputs == {NaN, Whole(8760)}

EaRenderProps ==
    /\ \E res \in EaProps : EaRender(res)
    /\ UNCHANGED <<appVars, nEdits, failures, canvasVars, loopVars, trackVars>>

EaEdit ==
    /\ \/ \E x \in PrecoInputs : EaOnChangeEconomicData("precoConcetrado", x)
       \/ \E x \in CustoProcessamentoInputs :
              EaOnChangeEconomicData("custoProcessamento", x)
       \/ \E x \in CustoPerdaInputs : EaOnChangeEconomicData("custoPerdaMineral", x)
       \/ \E x \in HorasInputs : EaOnChangeEconomicData("horasOperacao", x)
    /\ UNCHANGED <<appVars, nEdits, failures, canvasVars, loopVars, trackVars>>

EaEvaluate ==
    /\ EconomicAnalysis_calculateEconomics
    /\ UNCHANGED <<appVars, nEdits, failures, canvasVars, loopVars, trackVars>>

NextEA ==
    \/ EaRenderProps
    \/ EaEdit
    \/ EaEvaluate

SpecEA == Init /\ [][NextEA]_vars

-----------------------------------------------------------------------------
(* The two economic evaluators side by side                                 *)

\* The DCF evaluation, remembering what it read when it stores a result.
EvaluateTracked ==
    /\ calculateEconomics
    /\ dcfInputs' = IF DcfGuardFails(results, economicData)
                    THEN dcfInputs
                    ELSE <<results, economicData>>
    /\ UNCHANGED <<eaInputs, lastOp, nEdits, failures, eaVars, canvasVars, loopVars>>

\* The Economic Evaluator, remembering what it read when it stores a result.
EaEvaluateTracked ==
    /\ EconomicAnalysis_calculateEconomics
    /\ eaInputs' = IF EaGuardFails(eaResults, eaEconomicData)
                   THEN eaInputs
                   ELSE <<eaResults, eaEconomicData>>
    /\ UNCHANGED <<dcfInputs, lastOp, appVars, nEdits, failures, canvasVars, loopVars>>

NextEvaluators ==
    \/ LoadIronOre
    \/ Solve
    \/ EditCosts
    \/ EvaluateTracked
    \/ EaRenderProps
    \/ EaEdit
    \/ EaEvaluateTracked

SpecEvaluators == InitApp /\ [][NextEvaluators]_vars

-----------------------------------------------------------------------------
(* The optimizer and the solver in turn, the last handler remembered       *)

\* The state the handlers of this session leave alone; each of them records
\* its name in lastOp.
tuneFrame == <<dcfInputs, eaInputs, nEdits, failures, eaVars, canvasVars, loopVars>>

\* Values typed into the target recovery and minimum grade fields.
TuneTargetInputs == {Whole(75), Whole(95)}

TuneMinGradeInputs == {Whole(70)}

TuneLoad ==
    /\ loadExample("iron-ore")
    /\ lastOp' = "loadExample"
    /\ UNCHANGED tuneFrame

TuneTargets ==
    /\ \/ \E x \in TuneTargetInputs :
              onChangeOptimizationParams("targetRecovery", x)
       \/ \E x \in TuneMinGradeInputs :
              onChangeOptimizationParams("minGrade", x)
    /\ lastOp' = "onChange"
    /\ UNCHANGED tuneFrame

\* A negative feed flow, a cleared tailings assay.
TuneBreak ==
    /\ \/ onChangeAlimentacao("vazao", Whole(-100))
       \/ onChangeRejeito("concentracao", NaN)
    /\ lastOp' = "onChange"
    /\ UNCHANGED tuneFrame

TuneOptimize ==
    /\ optimizeParameters
    /\ lastOp' = "optimizeParameters"
    /\ UNCHANGED tuneFrame

\* The session ends once MaxSolves results have been stored.
TuneSolve ==
    /\ calculateBalance
    /\ Len(solved') <= MaxSolves
    /\ lastOp' = "calculateBalance"
    /\ UNCHANGED tuneFrame

NextTuning ==
    \/ TuneLoad
    \/ TuneTargets
    \/ TuneBreak
    \/ TuneOptimize
    \/ TuneSolve

SpecTuning == Init /\ [][NextTuning]_vars

-----------------------------------------------------------------------------
(* The flowsheet canvas: equipment added, edited, deleted, cleared         *)

\* ['moinho', 'britador', 'rougher', 'cleaner', 'recleaner']
EquipmentTools == {"moinho", "britador", "rougher", "cleaner", "recleaner"}

\* equipmentNames
EquipmentName(type) ==
    CASE type = "moinho" -> "Moinho"
      [] type = "britador" -> "Britador"
      [] type = "rougher" -> "Rougher"
      [] type = "cleaner" -> "Cleaner"
      [] type = "recleaner" -> "Recleaner"

\* getDefaultParameters
getDefaultParameters(type) ==
    CASE type = "moinho" ->
             [potencia |-> Whole(1000), diametro |-> Num(35, 10),
              comprimento |-> Num(42, 10), velocidadeRotacao |-> Whole(18),
              eficiencia |-> Whole(85)]
      [] type = "britador" ->
             [abertura |-> Whole(25), potencia |-> Whole(500),
              eficiencia |-> Whole(80)]
      [] type = "rougher" ->
             [pressaoAr |-> Whole(150), dosagem |-> Whole(150),
              tempoRetencao |-> Whole(8), eficiencia |-> Whole(75)]
      [] type = "cleaner" ->
             [pressaoAr |-> Whole(120), dosagem |-> Whole(50),
              tempoRetencao |-> Whole(4), eficiencia |-> Whole(80)]
      [] type = "recleaner" ->
             [pressaoAr |-> Whole(100), dosagem |-> Whole(25),
              tempoRetencao |-> Whole(3), eficiencia |-> Whole(85)]

\* `eq_${n}`
EquipmentId(n) == "eq_" \o ToString(n)

\* newEquipment of addEquipment; click is the position of the click in the
\* canvas.
NewEquipment(tool, n, click) ==
    [id |-> EquipmentId(n),
     type |-> tool,
     x |-> click.x - 30,
     y |-> click.y - 20,
     name |-> EquipmentName(tool) \o "-" \o ToString(n),
     parameters |-> getDefaultParameters(tool)]

\* The flowsheet state as the handlers of one event pass it on: each handler
\* below maps the state it finds to the state it leaves.
Canvas ==
    [activeTool |-> activeTool, equipments |-> equipments,
     nextEquipmentId |-> nextEquipmentId, contextMenu |-> contextMenu,
     editingEquipment |-> editingEquipment, showEditModal |-> showEditModal]

\* The state handed on by the last handler of the event becomes the next one.
Commit(c) ==
    /\ activeTool' = c.activeTool
    /\ equipments' = c.equipments
    /\ nextEquipmentId' = c.nextEquipmentId
    /\ contextMenu' = c.contextMenu
    /\ editingEquipment' = c.editingEquipment
    /\ showEditModal' = c.showEditModal
    /\ UNCHANGED <<appVars, nEdits, failures, eaVars, loopVars, trackVars>>

addEquipment(c, click) ==
    IF c.activeTool \notin EquipmentTools
    THEN c
    ELSE [c EXCEPT !.equipments =
                       Append(@, NewEquipment(c.activeTool, c.nextEquipmentId, click)),
                   !.nextEquipmentId = @ + 1]

clearCanvas(c) == [c EXCEPT !.equipments = <<>>, !.nextEquipmentId = 1]

showContextMenu(c, equipmentId) == [c EXCEPT !.contextMenu = Some(equipmentId)]

hideContextMenu(c) == [c EXCEPT !.contextMenu = Null]

\* prev.filter(eq => eq.id !== equipmentId)
WithoutId(eqs, equipmentId) ==
    SelectSeq(eqs, LAMBDA eq : eq.id # equipmentId)

deleteEquipment(c, equipmentId) ==
    hideContextMenu([c EXCEPT !.equipments = WithoutId(@, equipmentId)])

\* equipments.find(eq => eq.id === equipmentId): the first match, or nothing.
Find(eqs, equipmentId) ==
    IF \E i \in 1..Len(eqs) : eqs[i].id = equipmentId
    THEN Some(eqs[CHOOSE i \in 1..Len(eqs) :
                      /\ eqs[i].id = equipmentId
                      /\ \A j \in 1..(i - 1) : eqs[j].id # equipmentId])
    ELSE Null

editEquipment(c, equipmentId) ==
    LET equipment == Find(c.equipments, equipmentId)
    IN  hideContextMenu(IF IsNull(equipment)
                        THEN c
                        ELSE [c EXCEPT !.editingEquipment = equipment,
                                       !.showEditModal = TRUE])

\* prev.map(eq => eq.id === updatedEquipment.id ? updatedEquipment : eq)
Replaced(eqs, updatedEquipment) ==
    [i \in 1..Len(eqs) |->
        IF eqs[i].id = updatedEquipment.id THEN updatedEquipment ELSE eqs[i]]

\* Variant: an equipment that is no longer on the canvas is put back.
saveEquipmentUpsert(c, updatedEquipment) ==
    [c EXCEPT !.equipments =
                  IF IsNull(Find(@, updatedEquipment.id))
                  THEN Append(@, updatedEquipment)
                  ELSE Replaced(@, updatedEquipment),
              !.showEditModal = FALSE,
              !.editingEquipment = Null]

saveEquipment(c, updatedEquipment) ==
    [c EXCEPT !.equipments = Replaced(@, updatedEquipment),
              !.showEditModal = FALSE,
              !.editingEquipment = Null]

\* The edit dialog is rendered.
ModalOpen == showEditModal /\ ~IsNull(editingEquipment)

\* Ids are issued up to this number in a session.
MaxEquipmentId == 3

\* Tools picked in the palette: two equipment tools and the line tool.
ToolInputs == {"moinho", "britador", "linha"}

\* Where the canvas is clicked.
ClickInputs == {[x |-> 130, y |-> 120]}

\* Names typed into the dialog.
NameInputs == {"Moinho A"}

\* A tool button of the palette; the click bubbles to the container, whose
\* onClick hides the context menu.
SelectTool ==
    \E tool \in ToolInputs :
        Commit(hideContextMenu([Canvas EXCEPT !.activeTool = tool]))

\* A click on the canvas (or on an equipment drawn on it).
ClickCanvas ==
    /\ nextEquipmentId <= MaxEquipmentId
    /\ \E click \in ClickInputs :
           Commit(hideContextMenu(addEquipment(Canvas, click)))

\* A right click on an equipment; stopPropagation keeps it from the canvas.
RightClickEquipment ==
    \E i \in 1..Len(equipments) :
        Commit(showContextMenu(Canvas, equipments[i].id))

\* A right click on the empty canvas.
RightClickCanvas == Commit(hideContextMenu(Canvas))

\* The edit button of the context menu. The menu is drawn inside the canvas,
\* so the click goes on to addEquipment and then to the container.
ClickMenuEdit ==
    /\ ~IsNull(contextMenu)
    /\ nextEquipmentId <= MaxEquipmentId
    /\ \E click \in ClickInputs :
           Commit(hideContextMenu(
                      addEquipment(editEquipment(Canvas, Val(contextMenu)), click)))

\* The delete button of the context menu, with the same two further handlers.
ClickMenuDelete ==
    /\ ~IsNull(contextMenu)
    /\ nextEquipmentId <= MaxEquipmentId
    /\ \E click \in ClickInputs :
           Commit(hideContextMenu(
                      addEquipment(deleteEquipment(Canvas, Val(contextMenu)), click)))

\* The name field of the dialog.
EditName ==
    /\ ModalOpen
    /\ \E name \in NameInputs :
           Commit([Canvas EXCEPT !.editingEquipment =
                                     Some([Val(@) EXCEPT !.name = name])])

\* The cancel and close buttons of the dialog.
ClickCancel ==
    /\ ModalOpen
    /\ Commit(hideContextMenu([Canvas EXCEPT !.showEditModal = FALSE,
                                             !.editingEquipment = Null]))

\* The save button of the dialog.
ClickSave ==
    /\ ModalOpen
    /\ Commit(hideContextMenu(saveEquipment(Canvas, Val(editingEquipment))))

\* The clear button of the toolbar.
ClearCanvas == Commit(hideContextMenu(clearCanvas(Canvas)))

NextCanvas ==
    \/ SelectTool
    \/ ClickCanvas
    \/ RightClickEquipment
    \/ RightClickCanvas
    \/ ClickMenuEdit
    \/ ClickMenuDelete
    \/ EditName
    \/ ClickCancel
    \/ ClickSave
    \/ ClearCanvas

SpecCanvas == Init /\ [][NextCanvas]_vars

-----------------------------------------------------------------------------
(* Properties                                                              *)

\* Every balance result the program holds: the current one and the history.
StoredResults ==
    {results[i] : i \in DOMAIN results}
    \cup {simulationHistory[i] : i \in DOMAIN simulationHistory}

\* concentrate assay > feed assay > tailings assay
Ordered(r) ==
    /\ Gt(r.concentrado.concentracao, r.alimentacao.concentracao)
    /\ Gt(r.alimentacao.concentracao, r.rejeito.concentracao)

\* C1: mass conservation. Every stored result solved from a form with
\* concentrate assay > feed assay > tailings assay has concentrate flow plus
\* tailings flow equal to its feed flow.
C1_MassConservation ==
    \A r \in StoredResults :
        Ordered(r) =>
            Add(r.concentrado.vazao, r.rejeito.vazao) = r.alimentacao.vazao

C1_Witness ==
    /\ ~IsNull(results)
    /\ Ordered(Val(results))
    /\ Gt(Val(results).concentrado.vazao, Zero)
    /\ Gt(Val(results).rejeito.vazao, Zero)

\* No incomplete group: the three basic validations pass.
FormComplete == Len(ValidationErrors(alimentacao, concentrado, rejeito)) = 0

\* C2: degenerate input. A solve of a complete form whose concentrate assay
\* equals its tailings assay fails with an error of its own, different from
\* the non-physical error, and leaves the result and the history as they were.
C2_DegenerateRejected ==
    [][(calculateBalance /\ FormComplete
          /\ concentrado.concentracao = rejeito.concentracao)
        => /\ errors' # <<>>
           /\ errors' # <<"Dados inconsistentes - resultados não físicos">>
           /\ UNCHANGED <<results, simulationHistory>>]_vars

AllFinite(r) ==
    /\ IsFinite(r.concentrado.vazao)
    /\ IsFinite(r.rejeito.vazao)
    /\ IsFinite(r.recuperacao)
    /\ IsFinite(r.razaoConcentracao)
    /\ IsFinite(r.eficienciaSeparacao)

\* C3: no stored result solved with concentrate assay equal to tailings assay
\* holds a NaN or an infinite flow rate, recovery, concentration ratio or
\* separation efficiency.
C3_NoNaNFromDegenerate ==
    \A r \in StoredResults :
        r.concentrado.concentracao = r.rejeito.concentracao => AllFinite(r)

\* C4: the current result and every history entry have concentrate flow >= 0
\* and tailings flow >= 0.
C4_NonNegativeFlows ==
    \A r \in StoredResults :
        Ge(r.concentrado.vazao, Zero) /\ Ge(r.rejeito.vazao, Zero)

\* The most recent min(n, 20) of the n results stored so far, in solve order.
RecentSolves ==
    LET n == Len(solved)
        m == IF n < 20 THEN n ELSE 20
    IN  [i \in 1..m |-> solved[n - m + i]]

\* C5: bounded FIFO history. The history holds at most 20 entries, exactly
\* the most recent min(n, 20) stored results in solve order; from the 21st
\* solve on the first result is absent and the latest is the last entry.
C5_BoundedFifoHistory ==
    /\ Len(simulationHistory) <= 20
    /\ simulationHistory = RecentSolves
    /\ Len(solved) >= 21 =>
          /\ \A i \in DOMAIN simulationHistory : simulationHistory[i] # solved[1]
          /\ simulationHistory[Len(simulationHistory)] = solved[Len(solved)]

C5_Witness == Len(solved) = 21 /\ Len(simulationHistory) = 20

\* feed flow > 0 and 0 < tailings assay < feed assay < concentrate assay <= 100
PhysicallyValid(r) ==
    /\ Gt(r.alimentacao.vazao, Zero)
    /\ Gt(r.rejeito.concentracao, Zero)
    /\ Ordered(r)
    /\ Le(r.concentrado.concentracao, Whole(100))

\* C6: recovery range. Every stored result solved from physically valid
\* inputs has its recovery in [0, 100].
C6_RecoveryRange ==
    \A r \in StoredResults :
        PhysicallyValid(r) =>
            Ge(r.recuperacao, Zero) /\ Le(r.recuperacao, Whole(100))

C6_Witness ==
    \E r \in StoredResults :
        /\ PhysicallyValid(r)
        /\ Gt(r.recuperacao, Whole(50))
        /\ Lt(r.recuperacao, Whole(100))

\* The messages of the incomplete groups of the form, in the order feed,
\* concentrate, tailings.
IncompleteGroups ==
    SelectSeq(<<"Dados de alimentação incompletos",
                "Dados de concentrado incompletos",
                "Dados de rejeito incompletos">>,
              LAMBDA m :
                  \/ /\ m = "Dados de alimentação incompletos"
                     /\ Zero \in {alimentacao.vazao, alimentacao.concentracao,
                                  alimentacao.densidade}
                  \/ /\ m = "Dados de concentrado incompletos"
                     /\ Zero \in {concentrado.concentracao, concentrado.densidade}
                  \/ /\ m = "Dados de rejeito incompletos"
                     /\ Zero \in {rejeito.concentracao, rejeito.densidade})

\* C7: aggregated validation. A solve of a form with incomplete groups sets
\* the error list to one message per incomplete group, in the order feed,
\* concentrate, tailings, and stores nothing.
C7_ValidationAggregated ==
    [][(calculateBalance /\ Len(IncompleteGroups) > 0)
        => /\ errors' = IncompleteGroups
           /\ UNCHANGED <<results, simulationHistory, solved>>]_vars

C7_Witness == Len(errors) = 2 /\ ~IsNull(results)

\* toFixed(2) of a finite positive number, in hundredths.
Hundredths(x) == (200 * x.n + x.d) \div (2 * x.d)

\* The result was solved from the iron-ore example.
FromIronOre(r) ==
    /\ r.alimentacao = Stream(Whole(100), Num(355, 10), Num(38, 10))
    /\ r.concentrado.concentracao = Num(682, 10)
    /\ r.concentrado.densidade = Num(48, 10)
    /\ r.rejeito.concentracao = Num(85, 10)
    /\ r.rejeito.densidade = Num(29, 10)

\* C8 as stated: the iron-ore example solves to C = 45.15, T = 54.85,
\* recovery = 86.65 and concentration ratio = 1.92, to two decimals.
C8_IronOreAsStated ==
    \A r \in StoredResults :
        FromIronOre(r) =>
            /\ Hundredths(r.concentrado.vazao) = 4515
            /\ Hundredths(r.rejeito.vazao) = 5485
            /\ Hundredths(r.recuperacao) = 8665
            /\ Hundredths(r.razaoConcentracao) = 192

\* C8: the iron-ore example solves to C = 45.23, T = 54.77, recovery = 86.89
\* and concentration ratio = 1.92, to two decimals.
C8_IronOreExample ==
    \A r \in StoredResults :
        FromIronOre(r) =>
            /\ Hundredths(r.concentrado.vazao) = 4523
            /\ Hundredths(r.rejeito.vazao) = 5477
            /\ Hundredths(r.recuperacao) = 8689
            /\ Hundredths(r.razaoConcentracao) = 192

C8_Witness == ~IsNull(results) /\ FromIronOre(Val(results))

\* The evaluation passes its guard.
DcfReady ==
    /\ ~IsNull(results)
    /\ economicData.capex # Zero
    /\ economicData.opexAnual # Zero

\* The annual cash flow of the evaluation, from the stored balance.
CashFlow == FluxoCaixaAnual(Val(results), economicData)

\* C9 as stated: an evaluation at discount rate 0 reports
\* NPV = -CAPEX + annualCashFlow * life, for every life.
C9_NpvZeroDiscountAsStated ==
    [][(DcfReady /\ economicData.taxaDesconto = Zero /\ calculateEconomics)
        => Val(economicResults').vpl =
               Add(Neg(economicData.capex), Mul(CashFlow, economicData.vidaUtil))]_vars

\* The whole years of an asset life: 0 below one year.
WholeYears(v) == IF v.n < v.d THEN 0 ELSE v.n \div v.d

\* C9: an evaluation at discount rate 0 reports
\* NPV = -CAPEX + annualCashFlow * n, n the whole years of the life, and
\* NPV = -CAPEX when the life is below one year.
C9_NpvZeroDiscount ==
    [][(DcfReady /\ economicData.taxaDesconto = Zero /\ calculateEconomics)
        => Val(economicResults').vpl =
               IF WholeYears(economicData.vidaUtil) = 0
               THEN Neg(economicData.capex)
               ELSE Add(Neg(economicData.capex),
                        Mul(CashFlow, Whole(WholeYears(economicData.vidaUtil))))]_vars

C9_Witness ==
    /\ ~IsNull(economicResults)
    /\ DcfReady
    /\ economicData.taxaDesconto = Zero
    /\ economicData.vidaUtil = Num(5, 2)
    /\ IsFinite(CashFlow) /\ CashFlow # Zero
    /\ Val(economicResults).vpl = Add(Neg(economicData.capex), Mul(CashFlow, Whole(2)))

\* C10: the guard of the cash-flow evaluation. With no balance result, a zero
\* CAPEX or a zero annual OPEX the evaluation reports the one error message
\* and leaves the stored cash-flow result as it was.
C10_DcfGuard ==
    [][((IsNull(results) \/ economicData.capex = Zero
            \/ economicData.opexAnual = Zero)
          /\ calculateEconomics)
        => /\ errors' =
                <<"Execute uma simulação e preencha os dados econômicos antes de calcular">>
           /\ economicResults' = economicResults]_vars

C10_Witness ==
    /\ errors = <<"Execute uma simulação e preencha os dados econômicos antes de calcular">>
    /\ ~IsNull(economicResults)
    /\ ~DcfReady

\* C11: the payback guard. An evaluation that passes its guard with an annual
\* cash flow <= 0 reports an error and leaves the stored cash-flow result as
\* it was.
C11_PaybackGuarded ==
    [][(DcfReady /\ Le(CashFlow, Zero) /\ calculateEconomics)
        => /\ errors' # <<>>
           /\ economicResults' = economicResults]_vars

\* The grid position of a reported rate: rate k/10 is position k.
GridIndex(x) == (10 * x.n) \div x.d

\* Position k is the first of the grid 1.0, 1.1, ..., 100.0 whose rate has
\* NPV <= 0, for an investment, an annual cash flow and a life.
FirstCrossing(capex, cf, vidaUtil, k) ==
    /\ k \in 10..1000
    /\ Crossing(capex, cf, vidaUtil, k)
    /\ \A j \in 10..(k - 1) : ~Crossing(capex, cf, vidaUtil, j)

\* No rate of the grid has NPV <= 0.
NoCrossing(capex, cf, vidaUtil) ==
    \A k \in 10..1000 : ~Crossing(capex, cf, vidaUtil, k)

\* The stored cash-flow result is the evaluation of the inputs on display:
\* the state an evaluation that passed its guard ends in.
JustEvaluated ==
    /\ DcfReady
    /\ economicResults = Some(EconomicResult(Val(results), economicData))

\* C12 as stated: a reported non-zero IRR is the first rate of the grid with
\* NPV <= 0, and lies in [1, 100].
C12_IrrIsFirstCrossing ==
    (JustEvaluated /\ Val(economicResults).tir # Zero)
        => LET tir == Val(economicResults).tir
           IN  /\ Ge(tir, Whole(1)) /\ Le(tir, Whole(100))
               /\ tir = Num(GridIndex(tir), 10)
               /\ FirstCrossing(economicData.capex, CashFlow,
                                economicData.vidaUtil, GridIndex(tir))

\* C12: a reported non-zero IRR is r - 0.1, r the first rate of the grid
\* 1.0, 1.1, ..., 100.0 with NPV <= 0, and lies in [0.9, 99.9].
C12_IrrBelowFirstCrossing ==
    (JustEvaluated /\ Val(economicResults).tir # Zero)
        => LET tir == Val(economicResults).tir
           IN  /\ Ge(tir, Num(9, 10)) /\ Le(tir, Num(999, 10))
               /\ tir = Num(GridIndex(tir), 10)
               /\ FirstCrossing(economicData.capex, CashFlow,
                                economicData.vidaUtil, GridIndex(tir) + 1)

C12_Witness ==
    /\ ~IsNull(economicResults)
    /\ DcfReady
    /\ Gt(CashFlow, Zero)
    /\ Val(economicResults).tir = Num(215, 10)
    /\ Val(economicResults).payback = Num(3, 2)

\* C13: the IRR not-found signal. A result just evaluated reports IRR = 0 exactly when
\* no rate of the grid 1.0, 1.1, ..., 100.0 has NPV <= 0.
C13_IrrZeroIffNotFound ==
    JustEvaluated
        => (Val(economicResults).tir = Zero
              <=> NoCrossing(economicData.capex, CashFlow, economicData.vidaUtil))

C13_Witness ==
    /\ ~IsNull(economicResults)
    /\ DcfReady
    /\ IsFinite(Val(economicResults).vpl)
    /\ Gt(Val(economicResults).vpl, Zero)
    /\ Val(economicResults).tir = Zero
    /\ Val(economicResults).payback = Num(1, 2)

\* C14: the guard of EconomicAnalysis. An evaluation with no results prop or
\* with a zero concentrate price changes nothing: the stored economic result,
\* the inputs and the prop keep their values.
C14_EaGuard ==
    [][((IsNull(eaResults) \/ eaEconomicData.precoConcetrado = Zero)
          /\ EconomicAnalysis_calculateEconomics)
        => UNCHANGED <<eaEconomicResults, eaEconomicData, eaResults>>]_vars

C14_Witness ==
    /\ ~IsNull(eaEconomicResults)
    /\ ~IsNull(eaResults)
    /\ eaEconomicData.precoConcetrado = Zero

\* C15: zero revenue is surfaced. No stored result of EconomicAnalysis has a
\* profit margin that is NaN or infinite.
C15_FiniteMargin ==
    ~IsNull(eaEconomicResults) => IsFinite(Val(eaEconomicResults).margemLucro)

\* C16: the economic breakdown. Every stored result of EconomicAnalysis has
\* annual profit = annual revenue - processing cost - loss cost, total cost =
\* processing cost + loss cost, and daily and monthly revenue and profit equal
\* to the annual figure over 365 and over 12.
C16_Breakdown ==
    ~IsNull(eaEconomicResults) =>
        LET e == Val(eaEconomicResults)
        IN  /\ e.lucro.anual =
                   Sub(Sub(e.receita.anual, e.custos.processamento), e.custos.perdas)
            /\ e.custos.total = Add(e.custos.processamento, e.custos.perdas)
            /\ e.receita.diaria = Div(e.receita.anual, Whole(365))
            /\ e.receita.mensal = Div(e.receita.anual, Whole(12))
            /\ e.lucro.diario = Div(e.lucro.anual, Whole(365))
            /\ e.lucro.mensal = Div(e.lucro.anual, Whole(12))

C16_Witness ==
    /\ ~IsNull(eaEconomicResults)
    /\ Gt(Val(eaEconomicResults).receita.anual, Zero)
    /\ Gt(Val(eaEconomicResults).custos.processamento, Zero)
    /\ Gt(Val(eaEconomicResults).custos.perdas, Zero)
    /\ Lt(Val(eaEconomicResults).lucro.anual, Val(eaEconomicResults).receita.anual)

\* The feed assays the search tries.
Candidates == {10 + 2 * i : i \in 0..15}

\* min(concentrate assay, minGrade) of the form on display
EffectiveAssay ==
    IF Lt(optimizationParams.minGrade, concentrado.concentracao)
    THEN optimizationParams.minGrade
    ELSE concentrado.concentracao

\* The recovery of the balance solved with feed assay k and the effective
\* concentrate assay.
CandidateRecovery(k) ==
    Recuperacao(ConcentrateFlow(alimentacao.vazao, Whole(k), EffectiveAssay,
                                rejeito.concentracao),
                EffectiveAssay, alimentacao.vazao, Whole(k))

\* effective concentrate assay > candidate > tailings assay
CandidateOrdered(k) ==
    /\ Gt(EffectiveAssay, Whole(k))
    /\ Gt(Whole(k), rejeito.concentracao)

\* The candidate satisfies the ordering and the recovery ceiling.
Qualifies(k) ==
    /\ CandidateOrdered(k)
    /\ Le(CandidateRecovery(k), Add(optimizationParams.targetRecovery, Whole(5)))

\* C17: the optimum and the ceiling. When some candidate qualifies,
\* optimizeParameters sets the feed assay to a qualifying candidate whose
\* recovery is the maximum over the qualifying candidates, and that recovery
\* is at most targetRecovery + 5.
C17_OptimizerOptimum ==
    [][(optimizeParameters /\ \E k \in Candidates : Qualifies(k))
        => \E k \in Candidates :
               /\ Qualifies(k)
               /\ alimentacao'.concentracao = Whole(k)
               /\ \A j \in Candidates :
                      Qualifies(j) => Le(CandidateRecovery(j), CandidateRecovery(k))
               /\ Le(CandidateRecovery(k),
                     Add(optimizationParams.targetRecovery, Whole(5)))]_vars

C17_Witness ==
    /\ optimizationParams.targetRecovery = Whole(85)
    /\ optimizationParams.minGrade = Whole(60)
    /\ concentrado.concentracao = Num(682, 10)
    /\ rejeito.concentracao = Num(85, 10)
    /\ alimentacao.concentracao = Whole(36)
    /\ errors = <<"Otimização concluída! Nova concentração de alimentação: 36.00%">>

\* C18: no feasible candidate. When no candidate satisfies the ordering,
\* optimizeParameters leaves the feed assay as it was.
C18_OptimizerNoCandidate ==
    [][(optimizeParameters /\ \A k \in Candidates : ~CandidateOrdered(k))
        => alimentacao'.concentracao = alimentacao.concentracao]_vars

C18_Witness ==
    /\ concentrado.concentracao = Num(52, 10)
    /\ rejeito.concentracao = Num(685, 10)
    /\ alimentacao.concentracao = Num(258, 10)
    /\ errors = <<"Otimização concluída! Nova concentração de alimentação: 25.80%">>

\* C19: no feasible candidate is observable. When no candidate qualifies,
\* optimizeParameters does not report the success message of a found optimum.
C19_NoCandidateTagged ==
    [][(optimizeParameters /\ \A k \in Candidates : ~Qualifies(k))
        => errors' # <<"Otimização concluída! Nova concentração de alimentação: "
                          \o ToFixed2(alimentacao'.concentracao) \o "%">>]_vars

\* The form holds physically valid inputs: every field filled, feed flow > 0
\* and 0 < tailings assay < feed assay < concentrate assay.
ValidForm ==
    /\ FormComplete
    /\ Gt(alimentacao.vazao, Zero)
    /\ Gt(rejeito.concentracao, Zero)
    /\ Gt(alimentacao.concentracao, rejeito.concentracao)
    /\ Gt(concentrado.concentracao, alimentacao.concentracao)

\* C20: recovery after failure. The outcome of a solve is the outcome of the
\* same form solved with nothing before it: the same error list, and either
\* the same stored result or none; so a solve of a valid form succeeds, clears
\* the error list and stores the result of that form, whatever failed before.
C20_SolveDependsOnInputsOnly ==
    [][calculateBalance =>
        LET fresh == NewResults(alimentacao, concentrado, rejeito)
            rejected == \/ ~FormComplete
                        \/ Lt(fresh.concentrado.vazao, Zero)
                        \/ Lt(fresh.rejeito.vazao, Zero)
        IN  /\ rejected => errors' # <<>> /\ results' = results
            /\ ~rejected => errors' = <<>> /\ results' = Some(fresh)
            /\ rejected =>
                   errors' = IF FormComplete
                             THEN <<"Dados inconsistentes - resultados não físicos">>
                             ELSE IncompleteGroups
            /\ ValidForm => ~rejected]_vars

C20_Witness ==
    /\ failures >= 2
    /\ ValidForm
    /\ errors = <<>>
    /\ results = Some(NewResults(alimentacao, concentrado, rejeito))

\* C21: derived flow rates are never inputs. In every state the concentrate
\* and tailings streams of the form have flow rate 0.
C21_DerivedFlowsNeverInputs ==
    /\ concentrado.vazao = Zero
    /\ rejeito.vazao = Zero

C21_Witness ==
    /\ ~IsNull(results)
    /\ Gt(Val(results).concentrado.vazao, Zero)
    /\ Gt(Val(results).rejeito.vazao, Zero)
    /\ alimentacao.concentracao = Whole(36)
    /\ concentrado.vazao = Zero
    /\ rejeito.vazao = Zero

FormEdited ==
    \/ alimentacao' # alimentacao
    \/ concentrado' # concentrado
    \/ rejeito' # rejeito

\* An edit of a stream field or an optimization (an example load or a reset
\* discards the result instead), or a solve that fails.
SnapshotStep ==
    \/ FormEdited /\ ~IsNull(results')
    \/ optimizeParameters
    \/ calculateBalance /\ errors' # <<>>

\* C22: stored results are snapshots. Once a result is stored, an edit of a
\* stream input, an optimization and a failed solve change neither the
\* current result nor any entry of the history.
C22_SnapshotsImmutable ==
    [][(~IsNull(results) /\ SnapshotStep)
           => /\ results' = results
              /\ simulationHistory' = simulationHistory]_vars

C22_Witness ==
    /\ ~IsNull(results)
    /\ Val(results).alimentacao.concentracao = Num(355, 10)
    /\ alimentacao.concentracao = Whole(36)
    /\ concentrado.concentracao = Zero
    /\ simulationHistory = <<Val(results)>>
    /\ errors = <<MsgConcentrado>>

\* C23: frame of the optimizer. An optimizeParameters step changes at most
\* the feed assay: feed flow and density, the concentrate and tailings
\* streams, the optimization parameters, the current result, the history and
\* the DCF result are unchanged.
C23_OptimizerFrame ==
    [][optimizeParameters
           => /\ alimentacao'.vazao = alimentacao.vazao
              /\ alimentacao'.densidade = alimentacao.densidade
              /\ concentrado' = concentrado
              /\ rejeito' = rejeito
              /\ optimizationParams' = optimizationParams
              /\ results' = results
              /\ simulationHistory' = simulationHistory
              /\ economicData' = economicData
              /\ economicResults' = economicResults]_vars

C23_Witness ==
    /\ errors = <<MsgOtimizacao(Whole(36))>>
    /\ alimentacao = [ExampleAlimentacao("iron-ore") EXCEPT !.concentracao = Whole(36)]
    /\ concentrado = ExampleConcentrado("iron-ore")
    /\ ~IsNull(results)
    /\ Val(results).alimentacao = ExampleAlimentacao("iron-ore")
    /\ Len(simulationHistory) = 1
    /\ ~IsNull(economicResults)

SolveSucceeds == calculateBalance /\ errors' = <<>>

SolveFails == calculateBalance /\ errors' # <<>>

\* The new result is the last entry; below capacity nothing is dropped, at
\* capacity the oldest entry is.
OneEntryAppended ==
    /\ ~IsNull(results')
    /\ simulationHistory' =
           IF Len(simulationHistory) < HistoryCap
           THEN Append(simulationHistory, Val(results'))
           ELSE Append(Tail(simulationHistory), Val(results'))

\* C24: frame of the history. The history changes only by a successful
\* calculateBalance, which appends exactly one entry; a failed solve,
\* resetForm, loadExample, optimizeParameters and a DCF evaluation leave it
\* unchanged.
C24_HistoryFrame ==
    [][/\ (simulationHistory' # simulationHistory) => SolveSucceeds
       /\ SolveSucceeds => OneEntryAppended
       /\ (\/ SolveFails
           \/ resetForm
           \/ \E type \in ExampleTypes : loadExample(type)
           \/ optimizeParameters
           \/ calculateEconomics) => simulationHistory' = simulationHistory]_vars

C24_Witness ==
    /\ Len(simulationHistory) = 1
    /\ IsNull(results)
    /\ alimentacao = ZeroStream
    /\ ~IsNull(economicResults)
    /\ errors = <<>>

\* C25 as stated: bounded computations terminate. A call of the DCF
\* evaluation that has started returns, for every finite asset life.
C25_EvaluationReturns == (pc # "idle") ~> (pc = "idle")

\* The rates examined by the scan are grid rates, at most 1000 of them.
C25_ScanBounded ==
    (pc = "tir") => /\ curTaxa \in TirFirst..TirLast
                    /\ curTaxa - TirFirst + 1 <= 1000

\* What the DCF evaluation computes from its inputs, <<>> when its guard fails.
DcfOutcome ==
    IF DcfGuardFails(results, economicData)
    THEN Null
    ELSE Some(EconomicResult(Val(results), economicData))

\* What the Economic Evaluator computes from its inputs.
EaOutcome ==
    IF EaGuardFails(eaResults, eaEconomicData)
    THEN Null
    ELSE Some(EaEconomicResult(Val(eaResults), eaEconomicData))

DcfResultCurrent == dcfInputs = <<results, economicData>>

EaResultCurrent == eaInputs = <<eaResults, eaEconomicData>>

\* C26: evaluator independence. As long as the balance result and the DCF
\* inputs are those of the last DCF evaluation, the stored DCF result is what
\* the evaluation computes from them, with a cost per ton for 8760 hours a
\* year, whatever has happened since to the operating hours and the other
\* inputs of the Economic Evaluator; conversely, as long as the inputs of the
\* Economic Evaluator are those of its last evaluation, its stored result is
\* what it computes from them, whatever has happened to the DCF inputs.
C26_EvaluatorsIndependent ==
    /\ DcfResultCurrent
           => /\ economicResults = DcfOutcome
              /\ Val(economicResults).custoTonelada =
                     Div(CustoOperacional(Val(results), economicData),
                         Mul(Val(results).concentrado.vazao, Whole(8760)))
    /\ EaResultCurrent => eaEconomicResults = EaOutcome

\* Both results are current, the DCF result evaluated for an investment of 15
\* and the other with the operating hours cleared.
C26_Witness ==
    /\ DcfResultCurrent
    /\ EaResultCurrent
    /\ eaEconomicData.horasOperacao = Zero
    /\ economicData.capex = Whole(15)
    /\ ~IsNull(eaEconomicResults)
    /\ Val(eaEconomicResults).receita.anual = Zero

\* The call stored a result: it is the current one and the last of the history.
SolveStored ==
    /\ errors' = <<>>
    /\ OneEntryAppended
    /\ ~IsNull(results')

\* The call failed: an error is shown, the result and the history are as before.
SolveRejected ==
    /\ errors' # <<>>
    /\ results' = results
    /\ simulationHistory' = simulationHistory

\* C27: the outcome of a solve is exclusive. Each calculateBalance call
\* either replaces the current result, empties the error list and appends to
\* the history, or sets a non-empty error list and leaves the current result
\* and the history as they were; it never stores a result with an error.
C27_SolveExclusive ==
    [][calculateBalance
           => /\ SolveStored \/ SolveRejected
              /\ ~(SolveStored /\ SolveRejected)
              /\ (results' # results \/ simulationHistory' # simulationHistory)
                     => errors' = <<>>]_vars

C27_Witness ==
    /\ errors = <<MsgNaoFisico>>
    /\ ~IsNull(results)
    /\ Gt(Val(results).concentrado.vazao, Zero)
    /\ simulationHistory = <<Val(results)>>
    /\ alimentacao.vazao = Whole(-100)
    /\ failures = 1

\* Feed flow > 0, tailings assay > 0 and no density of the form is zero.
TuningHypotheses ==
    /\ Gt(alimentacao.vazao, Zero)
    /\ Gt(rejeito.concentracao, Zero)
    /\ Truthy(alimentacao.densidade)
    /\ Truthy(concentrado.densidade)
    /\ Truthy(rejeito.densidade)

\* The handler that ran last was optimizeParameters and a candidate passed
\* its two tests, so the feed assay on display is the one it selected.
JustSelected ==
    /\ lastOp = "optimizeParameters"
    /\ \E k \in Candidates : Qualifies(k)

\* recovery of the balance of the form on display, from the assays alone and
\* with the concentrate assay as typed: c (f - t) / (f (c - t)) * 100
UnclampedRecovery ==
    Mul(Div(Mul(concentrado.concentracao,
                Sub(alimentacao.concentracao, rejeito.concentracao)),
            Mul(alimentacao.concentracao,
                Sub(concentrado.concentracao, rejeito.concentracao))),
        Whole(100))

\* C28: optimize, then solve. With feed flow > 0, tailings assay > 0 and all
\* densities non-zero, a calculateBalance that runs right after an
\* optimizeParameters that selected a candidate succeeds: the selected feed
\* assay lies strictly between the tailings and the concentrate assay, the
\* result is stored with no error, and its recovery, computed with the
\* concentrate assay as typed (not clamped by minGrade), is at most
\* targetRecovery + 5.
C28_SolveAfterOptimize ==
    [][(JustSelected /\ TuningHypotheses /\ calculateBalance)
        => /\ Gt(concentrado.concentracao, alimentacao.concentracao)
           /\ Gt(alimentacao.concentracao, rejeito.concentracao)
           /\ errors' = <<>>
           /\ ~IsNull(results')
           /\ Val(results').alimentacao = alimentacao
           /\ Val(results').recuperacao = UnclampedRecovery
           /\ Le(Val(results').recuperacao,
                 Add(optimizationParams.targetRecovery, Whole(5)))]_vars

\* The iron-ore form optimized to a feed assay of 36 % under the default
\* targets and then solved: recovery 68.2 * 27.5 / (36 * 59.7) * 100.
C28_Witness ==
    /\ lastOp = "calculateBalance"
    /\ errors = <<>>
    /\ ~IsNull(results)
    /\ Val(results).alimentacao.concentracao = Whole(36)
    /\ Val(results).concentrado.concentracao = Num(682, 10)
    /\ Val(results).recuperacao = Num(6820 * 275, 36 * 597)
    /\ optimizationParams.minGrade = Whole(60)
    /\ optimizationParams.targetRecovery = Whole(85)

\* C29: the optimizer is idempotent. An optimizeParameters that runs right
\* after another one, with nothing edited in between, leaves the feed as the
\* first call left it.
C29_OptimizerIdempotent ==
    [][(lastOp = "optimizeParameters" /\ optimizeParameters)
        => alimentacao' = alimentacao]_vars

\* optimizeParameters has just run on the iron-ore form with target recovery
\* 75 and minimum grade 70 and selected a feed assay of 28 %; the next call
\* starts from this state.
C29_Witness ==
    /\ lastOp = "optimizeParameters"
    /\ optimizationParams.targetRecovery = Whole(75)
    /\ optimizationParams.minGrade = Whole(70)
    /\ alimentacao.concentracao = Whole(28)
    /\ errors = <<MsgOtimizacao(Whole(28))>>

\* The ids on the canvas are pairwise distinct.
DistinctIds ==
    \A i, j \in 1..Len(equipments) :
        i # j => equipments[i].id # equipments[j].id

\* Every id on the canvas is eq_n for some n below the next-id counter.
IdsBelowCounter ==
    \A i \in 1..Len(equipments) :
        \E n \in 1..(nextEquipmentId - 1) : equipments[i].id = EquipmentId(n)

\* The ids on the canvas, in order.
IdsOf(eqs) == [i \in 1..Len(eqs) |-> eqs[i].id]

\* A save keeps the ids on the canvas and their order, puts the saved record
\* in the place of the equipment with its id, and leaves the others alone.
SaveReplacesMatchOnly ==
    ClickSave
        => LET updated == Val(editingEquipment)
           IN  /\ IdsOf(equipments') = IdsOf(equipments)
               /\ \A i \in 1..Len(equipments) :
                      equipments'[i] = IF equipments[i].id = updated.id
                                       THEN updated
                                       ELSE equipments[i]

\* C30: equipment ids. Whatever the sequence of additions, deletions, saves
\* and clears, the equipment on the canvas have pairwise distinct ids, each id
\* is eq_n with n below the next-id counter, and a save replaces only the
\* equipment with the matching id: it neither puts back an equipment that is
\* no longer on the canvas nor alters another one.
C30_EquipmentIds ==
    /\ [](DistinctIds /\ IdsBelowCounter)
    /\ [][SaveReplacesMatchOnly]_vars

\* Three equipment were added, the second was deleted and the first renamed
\* in the dialog and saved.
C30_Witness ==
    /\ Len(equipments) = 2
    /\ equipments[1].id = "eq_1"
    /\ equipments[1].name = "Moinho A"
    /\ equipments[2].id = "eq_3"
    /\ equipments[2].name = "Moinho-3"
    /\ nextEquipmentId = 4
    /\ ~ModalOpen

====
